---- MODULE Spec2Model ----
(***************************************************************************)
(* Model of the PDF template mail-merge engine (PdfService) of the         *)
(* scorecard backend.                                                      *)
(*                                                                         *)
(* Encoding.  A content stream is a sequence of lines, one drawing         *)
(* operator per line (the canonical template output).  A line is a record  *)
(* with an `op` field and the operands the source's regular expressions    *)
(* capture.  Text is a sequence of lexemes (short strings): the braces of  *)
(* a placeholder are single lexemes, so that `{{Business_Name}}` is the    *)
(* text << "{", "{", "Business_Name", "}", "}" >> and String.includes is   *)
(* contiguous-subsequence containment.  Lengths are in thousandths of a    *)
(* point; Tm scale operands are plain integers.                            *)
(***************************************************************************)
EXTENDS Integers, Sequences, FiniteSets, TLC

\* ------------------------------------------------------------------------
\* Bounds of the model
\* ------------------------------------------------------------------------
MaxSetup == 3
MaxShow == 2

\* ------------------------------------------------------------------------
\* Program constants
\* ------------------------------------------------------------------------
PAGE_WIDTH == 595275
NumPages == 7
ScoreRightEdge == 530000

\* A missing text (the value `undefined` of a string-typed field), the null
\* of findPlaceholder, and the page index of a stream that is no page's
\* Contents entry.
Undefined == << "<undefined>" >>
Null == "null"
NoPage == -1

\* The inner names of ALL_PLACEHOLDERS, in the source's order; the key
\* `{{N}}` of the source is represented by its inner name N.
ALL_PLACEHOLDERS ==
  << "Business_Name", "City_or_Service_Area", "Report_Date", "Total_Score",
     "Segment_Name", "Segment_One_Liner", "Visibility_Score",
     "Conversion_Score", "Reputation_Score", "Marketing_Score",
     "Tracking_Score", "Lowest_Pillar_Name",
     "Lowest_Pillar_Impact_Statement", "Segment_Description_Block",
     "Primary_Focus_Area" >>

PlaceholderKeys == { ALL_PLACEHOLDERS[i] : i \in 1..Len(ALL_PLACEHOLDERS) }

\* The text of the placeholder `{{key}}`.
TokenText(key) == << "{", "{", key, "}", "}" >>

FontKeys == { "robotoRegular", "robotoBold", "robotoMedium", "archivoBold",
              "archivoExtraBold" }

Cfg(f, c, ml, mw, lh) ==
  [ fontKey |-> f, centered |-> c, multiline |-> ml, maxWidth |-> mw,
    lineHeight |-> lh ]

\* lineHeight is in hundredths (1.2 -> 120), maxWidth in thousandths of a pt.
PLACEHOLDER_CONFIG ==
  [ k \in PlaceholderKeys |->
      CASE k = "Business_Name" -> Cfg("archivoExtraBold", FALSE, FALSE, 0, 0)
        [] k = "City_or_Service_Area" -> Cfg("archivoExtraBold", FALSE, FALSE, 0, 0)
        [] k = "Report_Date" -> Cfg("archivoExtraBold", FALSE, FALSE, 0, 0)
        [] k = "Total_Score" -> Cfg("robotoBold", TRUE, FALSE, 0, 0)
        [] k = "Segment_Name" -> Cfg("robotoMedium", TRUE, FALSE, 0, 0)
        [] k = "Segment_One_Liner" -> Cfg("robotoBold", TRUE, TRUE, 450000, 120)
        [] k = "Lowest_Pillar_Name" -> Cfg("archivoExtraBold", FALSE, FALSE, 0, 0)
        [] k = "Lowest_Pillar_Impact_Statement" -> Cfg("robotoRegular", TRUE, TRUE, 450000, 130)
        [] k = "Segment_Description_Block" -> Cfg("robotoRegular", FALSE, TRUE, 380000, 135)
        [] k = "Primary_Focus_Area" -> Cfg("robotoRegular", FALSE, FALSE, 0, 0)
        [] OTHER -> Cfg("robotoBold", FALSE, FALSE, 0, 0) ]

\* pos.key.endsWith('_Score}}')
EndsWithScore(key) ==
  key \in { "Total_Score", "Visibility_Score", "Conversion_Score",
            "Reputation_Score", "Marketing_Score", "Tracking_Score" }

\* ------------------------------------------------------------------------
\* Text helpers (String.includes, indexOf, substring, join)
\* ------------------------------------------------------------------------
Includes(text, pat) ==
  \E i \in 1..(Len(text) - Len(pat) + 1) :
    SubSeq(text, i, i + Len(pat) - 1) = pat

\* 1-based index of the first occurrence (the text includes pat).
IndexOf(text, pat) ==
  CHOOSE i \in 1..(Len(text) - Len(pat) + 1) :
    /\ SubSeq(text, i, i + Len(pat) - 1) = pat
    /\ \A j \in 1..(i - 1) : SubSeq(text, j, j + Len(pat) - 1) # pat

SubstringFrom(text, i) == SubSeq(text, i, Len(text))

RECURSIVE Flatten(_)
Flatten(seqs) ==
  IF seqs = << >> THEN << >> ELSE Head(seqs) \o Flatten(Tail(seqs))

DeveloperNote == << "Developer", " Note" >>
SpecificSegment == << "specific", " segment" >>
BusinessesLik == << "Businesses lik" >>
OutOf100 == << "out of 100" >>
Slash20 == << "/ 20" >>
BiggestGrowth == << "Biggest Growth Opportunity" >>
OpenBraces == << "{", "{" >>

\* ------------------------------------------------------------------------
\* Lines of a content stream
\* ------------------------------------------------------------------------
Tm(a, d, tx, ty) == [ op |-> "Tm", a |-> a, d |-> d, tx |-> tx, ty |-> ty ]
Td(o, dx, dy) == [ op |-> o, dx |-> dx, dy |-> dy ]
Tf(name, size) == [ op |-> "Tf", name |-> name, size |-> size ]
FillK(c, m, y, k) == [ op |-> "k", c |-> c, m |-> m, y |-> y, k |-> k ]
FillG(gray) == [ op |-> "g", gray |-> gray ]
TJ(frags, kerns) == [ op |-> "TJ", frags |-> frags, kerns |-> kerns ]
Tj(text) == [ op |-> "Tj", text |-> text ]
Do(name) == [ op |-> "Do", name |-> name ]
Plain(o) == [ op |-> o ]

EmptyLine == Plain("empty")
BlankTj == Tj(<< >>)

\* The raw text of a line, as far as the source's substring tests can see
\* it: the literals of a TJ array are separated by their parentheses and
\* the kerning numbers between them.
RECURSIVE RawFrags(_)
RawFrags(frags) ==
  IF frags = << >> THEN << >>
  ELSE << "(" >> \o Head(frags) \o << ")" >> \o
       (IF Len(frags) > 1 THEN << "#" >> ELSE << >>) \o RawFrags(Tail(frags))

RawLine(line) ==
  CASE line.op = "TJ" -> << "[" >> \o RawFrags(line.frags) \o << "]", "TJ" >>
    [] line.op = "Tj" -> << "(" >> \o line.text \o << ")", "Tj" >>
    [] line.op = "empty" -> << >>
    [] OTHER -> << line.op >>

RECURSIVE RawStream(_)
RawStream(lines) ==
  IF lines = << >> THEN << >>
  ELSE RawLine(Head(lines)) \o
       (IF Len(lines) > 1 THEN << "\n" >> ELSE << >>) \o RawStream(Tail(lines))

\* ------------------------------------------------------------------------
\* Utilities of PdfService
\* ------------------------------------------------------------------------
\* Concatenate string parts inside a TJ array, stripping kerning values.
extractTJText(line) == Flatten(line.frags)

\* Return the placeholder key if text contains one (first in the fixed order).
findPlaceholder(text) ==
  IF \E i \in 1..Len(ALL_PLACEHOLDERS) : Includes(text, TokenText(ALL_PLACEHOLDERS[i]))
  THEN ALL_PLACEHOLDERS[
         CHOOSE i \in 1..Len(ALL_PLACEHOLDERS) :
           /\ Includes(text, TokenText(ALL_PLACEHOLDERS[i]))
           /\ \A j \in 1..(i - 1) : ~Includes(text, TokenText(ALL_PLACEHOLDERS[j])) ]
  ELSE Null

\* ------------------------------------------------------------------------
\* blankAndRecordPositions
\* ------------------------------------------------------------------------
\* /^\/(TT\d+)\s+[\d.]+\s+Tf$/ : the resource name must be TT<digits>.
TTNames == { "TT0", "TT1", "TT2" }
tfMatch(line) == line.op = "Tf" /\ line.name \in TTNames /\ line.size >= 0
cmykMatch(line) ==
  line.op = "k" /\ line.c >= 0 /\ line.m >= 0 /\ line.y >= 0 /\ line.k >= 0
grayMatch(line) == line.op = "g" /\ line.gray >= 0
tmMatch(line) == line.op = "Tm"
tdMatch(line) == line.op \in { "Td", "TD" }
tjArrayMatch(line) == line.op = "TJ"
tjMatch(line) == line.op = "Tj"

InitScanState ==
  [ tmA |-> 0, tmD |-> 0, tmX |-> 0, tmY |-> 0,
    currentFontKey |-> "robotoRegular", fillColor |-> [ gray |-> 0 ] ]

\* Track Tf (font selection): a name the map does not resolve leaves the
\* current font unchanged.
TrackFont(st, line, fontMap) ==
  IF tfMatch(line) /\ line.name \in DOMAIN fontMap
  THEN [ st EXCEPT !.currentFontKey = fontMap[line.name] ] ELSE st

\* Variant: the grayscale operator is not tracked.
TrackColor_NoGray(st, line) ==
  IF cmykMatch(line)
  THEN [ st EXCEPT !.fillColor =
           [ c |-> line.c, m |-> line.m, y |-> line.y, k |-> line.k ] ]
  ELSE st

\* Track the CMYK and the grayscale fill colour.
TrackColor(st, line) ==
  IF cmykMatch(line)
  THEN [ st EXCEPT !.fillColor =
           [ c |-> line.c, m |-> line.m, y |-> line.y, k |-> line.k ] ]
  ELSE IF grayMatch(line)
  THEN [ st EXCEPT !.fillColor = [ gray |-> line.gray ] ]
  ELSE st

\* Variant: a relative move is added without the matrix scale.
TrackMatrix_Unscaled(st, line) ==
  IF tmMatch(line)
  THEN [ st EXCEPT !.tmA = line.a, !.tmD = line.d,
                   !.tmX = line.tx, !.tmY = line.ty ]
  ELSE IF tdMatch(line)
  THEN [ st EXCEPT !.tmX = @ + line.dx, !.tmY = @ + line.dy ]
  ELSE st

\* Track Tm (absolute) and Td / TD (relative move, scaled by the matrix).
TrackMatrix(st, line) ==
  IF tmMatch(line)
  THEN [ st EXCEPT !.tmA = line.a, !.tmD = line.d,
                   !.tmX = line.tx, !.tmY = line.ty ]
  ELSE IF tdMatch(line)
  THEN [ st EXCEPT !.tmX = @ + line.dx * st.tmA,
                   !.tmY = @ + line.dy * st.tmD ]
  ELSE st

\* The state tracking done for one line before the show-text checks.
TrackLine(st, line, fontMap) ==
  TrackMatrix(TrackColor(TrackFont(st, line, fontMap), line), line)

\* The concatenated literal text of a show-text line.
ShowText(line) ==
  IF line.op = "TJ" THEN extractTJText(line)
  ELSE IF line.op = "Tj" THEN line.text ELSE << >>

IsShow(line) == tjArrayMatch(line) \/ tjMatch(line)

\* Variant: the suffix starts at the token instead of after it.
NewPosition_SuffixFromToken(st, line, pageIndex) ==
  LET text == ShowText(line)
      foundKey == findPlaceholder(text)
  IN  [ key |-> foundKey,
        pageIndex |-> pageIndex,
        x |-> st.tmX,
        y |-> st.tmY,
        fontSize |-> IF st.tmA # 0 THEN st.tmA ELSE st.tmD,
        fontKey |-> st.currentFontKey,
        color |-> st.fillColor,
        suffix |-> SubstringFrom(text, IndexOf(text, TokenText(foundKey))) ]

NewPosition(st, line, pageIndex) ==
  LET text == ShowText(line)
      foundKey == findPlaceholder(text)
  IN  [ key |-> foundKey,
        pageIndex |-> pageIndex,
        x |-> st.tmX,
        y |-> st.tmY,
        fontSize |-> IF st.tmA # 0 THEN st.tmA ELSE st.tmD,
        fontKey |-> st.currentFontKey,
        color |-> st.fillColor,
        suffix |-> SubstringFrom(text,
                     IndexOf(text, TokenText(foundKey)) + Len(TokenText(foundKey))) ]

\* Variant: a show-text line with an opening `{{` is blanked whether or not
\* its token is known.
RECURSIVE ScanLoop_BlankAnyBraces(_, _, _, _)
ScanLoop_BlankAnyBraces(lines, st, pageIndex, fontMap) ==
  IF lines = << >> THEN [ output |-> << >>, positions |-> << >> ]
  ELSE LET line == Head(lines)
           st2 == TrackLine(st, line, fontMap)
           rest == ScanLoop_BlankAnyBraces(Tail(lines), st2, pageIndex, fontMap)
       IN  IF IsShow(line) /\ findPlaceholder(ShowText(line)) # Null
           THEN [ output |-> << BlankTj >> \o rest.output,
                  positions |-> << NewPosition(st2, line, pageIndex) >> \o rest.positions ]
           ELSE IF IsShow(line) /\ Includes(ShowText(line), OpenBraces)
           THEN [ output |-> << BlankTj >> \o rest.output,
                  positions |-> rest.positions ]
           ELSE [ output |-> << line >> \o rest.output,
                  positions |-> rest.positions ]

\* The line-by-line loop: the result is the output lines and the positions
\* pushed, in order.
RECURSIVE ScanLoop(_, _, _, _)
ScanLoop(lines, st, pageIndex, fontMap) ==
  IF lines = << >> THEN [ output |-> << >>, positions |-> << >> ]
  ELSE LET line == Head(lines)
           st2 == TrackLine(st, line, fontMap)
           rest == ScanLoop(Tail(lines), st2, pageIndex, fontMap)
       IN  IF IsShow(line) /\ findPlaceholder(ShowText(line)) # Null
           THEN [ output |-> << BlankTj >> \o rest.output,
                  positions |-> << NewPosition(st2, line, pageIndex) >> \o rest.positions ]
           ELSE [ output |-> << line >> \o rest.output,
                  positions |-> rest.positions ]

blankAndRecordPositions(stream, pageIndex, fontMap) ==
  IF ~Includes(RawStream(stream), OpenBraces)
  THEN [ output |-> stream, positions |-> << >> ]
  ELSE ScanLoop(stream, InitScanState, pageIndex, fontMap)

\* ------------------------------------------------------------------------
\* Phase A helpers: template-wide and per-page blanking
\* ------------------------------------------------------------------------
MapLines(stream, F(_)) == [ i \in 1..Len(stream) |-> F(stream[i]) ]

\* Blank developer note TJ arrays.
DeveloperNoteLine(line) ==
  IF line.op = "TJ" /\ ( Includes(extractTJText(line), DeveloperNote)
                         \/ Includes(extractTJText(line), SpecificSegment) )
  THEN BlankTj ELSE line
blankDeveloperNote(stream) == MapLines(stream, DeveloperNoteLine)

\* stream.replace(/\/X10\s+Do/g, '')
RemoveDo(stream, names) ==
  [ i \in 1..Len(stream) |->
      IF stream[i].op = "Do" /\ stream[i].name \in names THEN EmptyLine
      ELSE stream[i] ]
blankPage2Background(stream) == RemoveDo(stream, { "X10" })

\* stream.replace(/\(out of 100\)\s*Tj/g, '() Tj')
OutOf100Line(line) ==
  IF line.op = "Tj" /\ line.text = OutOf100 THEN BlankTj ELSE line
blankPage2OutOf100(stream) == MapLines(stream, OutOf100Line)

\* String.trim on a text whose blanks are the lexeme " ".
RECURSIVE TrimLeft(_)
TrimLeft(text) ==
  IF text # << >> /\ Head(text) = " " THEN TrimLeft(Tail(text)) ELSE text
RECURSIVE TrimRight(_)
TrimRight(text) ==
  IF text # << >> /\ text[Len(text)] = " "
  THEN TrimRight(SubSeq(text, 1, Len(text) - 1)) ELSE text
Trim(text) == TrimRight(TrimLeft(text))

FractionLine(line) ==
  IF line.op = "TJ" /\ Trim(extractTJText(line)) = Slash20 THEN BlankTj
  ELSE IF line.op = "Tj" /\ line.text = Slash20 THEN BlankTj
  ELSE line
blankPage3Fractions(stream) == MapLines(stream, FractionLine)

HeadingLine(line) ==
  IF line.op = "TJ" /\ Includes(extractTJText(line), BiggestGrowth)
  THEN BlankTj ELSE line
blankPage4Heading(stream) == MapLines(stream, HeadingLine)

\* /97\.437\s+556\.683\s+-1\.548\s+31\.587\s+re\s*\nf/g : the accent
\* rectangle line and the `f` that starts the next line are removed
\* together with the newline between them.  A line that starts with `f` is
\* the fill operator `f` of the model.
RECURSIVE RemoveAccent(_)
RemoveAccent(stream) ==
  IF stream = << >> THEN << >>
  ELSE IF Len(stream) >= 2 /\ stream[1].op = "re_accent" /\ stream[2].op = "f"
  THEN << EmptyLine >> \o RemoveAccent(SubSeq(stream, 3, Len(stream)))
  ELSE << Head(stream) >> \o RemoveAccent(Tail(stream))
blankPage5InnerCard(stream) == RemoveAccent(RemoveDo(stream, { "X36" }))

\* /q\s*\n\s*1 0 0 1 95\.4604 545\.954 cm[\s\S]*?f\s*\n\s*Q/ (first match
\* only, lazy): from a line ending in `q` whose next line is the dot's cm,
\* to the first later line that ends in `f` and is followed by a `Q` line.
EndsWithF(line) == line.op \in { "f", "Tf" }
DotStart(stream, i) ==
  /\ i + 1 <= Len(stream)
  /\ stream[i].op = "q"
  /\ stream[i + 1].op = "cm_dot"
DotEnd(stream, i, j) ==
  /\ j >= i + 2
  /\ j + 1 <= Len(stream)
  /\ EndsWithF(stream[j])
  /\ stream[j + 1].op = "Q"
DotMatch(stream, i) == DotStart(stream, i) /\ \E j \in 1..Len(stream) : DotEnd(stream, i, j)
RemoveVectorDot(stream) ==
  IF \E i \in 1..Len(stream) : DotMatch(stream, i)
  THEN LET i == CHOOSE i \in 1..Len(stream) :
                  DotMatch(stream, i) /\ \A h \in 1..(i - 1) : ~DotMatch(stream, h)
           j == CHOOSE j \in 1..Len(stream) :
                  DotEnd(stream, i, j) /\ \A h \in 1..(j - 1) : ~DotEnd(stream, i, h)
       IN  SubSeq(stream, 1, i - 1) \o << EmptyLine >> \o
           SubSeq(stream, j + 2, Len(stream))
  ELSE stream
blankPage3Dots(stream) ==
  RemoveDo(RemoveVectorDot(stream), { "X19", "X20", "X21", "X22" })

\* Blank all TJ/Tj operators in the BT...ET block containing the inline
\* sentence of page 7.
LineIncludes(line, pat) == Includes(RawLine(line), pat)
SentenceLine(stream) ==
  CHOOSE i \in 1..Len(stream) :
    /\ LineIncludes(stream[i], BusinessesLik)
    /\ \A h \in 1..(i - 1) : ~LineIncludes(stream[h], BusinessesLik)
LastBtBefore(stream, i) ==
  IF \E b \in 1..i : stream[b].op = "BT"
  THEN CHOOSE b \in 1..i :
         stream[b].op = "BT" /\ \A h \in (b + 1)..i : stream[h].op # "BT"
  ELSE 0
\* inTargetBlock just before line i is processed.
RECURSIVE InTargetBlock(_, _, _)
InTargetBlock(stream, start, i) ==
  IF i <= start THEN FALSE
  ELSE IF i = start + 1 THEN TRUE
  ELSE InTargetBlock(stream, start, i - 1) /\ stream[i - 1].op # "ET"
blankInlinePlaceholders(stream) ==
  IF ~Includes(RawStream(stream), BusinessesLik) THEN stream
  ELSE LET start == LastBtBefore(stream, SentenceLine(stream))
       IN  IF start = 0 THEN stream
           ELSE [ i \in 1..Len(stream) |->
                    IF /\ InTargetBlock(stream, start, i)
                       /\ stream[i].op # "ET"
                       /\ stream[i].op \in { "TJ", "Tj" }
                    THEN BlankTj ELSE stream[i] ]

\* Variant: the transforms are registered under page numbers (1-based).
PageFixups_PageNumbers(stream, pageIndex) ==
  CASE pageIndex = 0 -> blankPage2OutOf100(blankPage2Background(stream))
    [] pageIndex = 2 -> blankPage4Heading(stream)
    [] pageIndex = 1 -> blankPage3Dots(blankPage3Fractions(stream))
    [] pageIndex = 3 -> blankPage5InnerCard(stream)
    [] pageIndex = 5 -> blankInlinePlaceholders(stream)
    [] OTHER -> stream

\* The transforms registered for a page index, applied in the source's
\* order before the token scan.
PageFixups(stream, pageIndex) ==
  CASE pageIndex = 1 -> blankPage2OutOf100(blankPage2Background(stream))
    [] pageIndex = 3 -> blankPage4Heading(stream)
    [] pageIndex = 2 -> blankPage3Dots(blankPage3Fractions(stream))
    [] pageIndex = 4 -> blankPage5InnerCard(stream)
    [] pageIndex = 6 -> blankInlinePlaceholders(stream)
    [] OTHER -> stream

\* The body of the Phase A loop for one stream object of a page: the
\* modified text and the positions pushed.  A stream without `{{` and
\* without `Developer Note` in its raw text is skipped.
BlankPhase(text, pageIndex, fontMap) ==
  IF ~Includes(RawStream(text), OpenBraces) /\ ~Includes(RawStream(text), DeveloperNote)
  THEN [ output |-> text, positions |-> << >> ]
  ELSE blankAndRecordPositions(
         PageFixups(blankDeveloperNote(text), pageIndex), pageIndex, fontMap)

\* ------------------------------------------------------------------------
\* Configuration data (texts are abbreviated to their first words)
\* ------------------------------------------------------------------------
PillarOrder == << "visibility", "conversion", "reputation", "marketing", "tracking" >>
PillarKeySet == { PillarOrder[i] : i \in 1..Len(PillarOrder) }

pillars ==
  [ p \in PillarKeySet |->
      CASE p = "visibility" ->
             [ name |-> << "Local", " ", "Visibility" >>,
               impactStatement |-> << "Customers", " ", "can't", " ", "choose", " ", "you" >> ]
        [] p = "conversion" ->
             [ name |-> << "Conversion", " ", "&", " ", "Contact" >>,
               impactStatement |-> << "Your", " ", "website", " ", "may", " ", "be" >> ]
        [] p = "reputation" ->
             [ name |-> << "Reputation", " ", "&", " ", "Trust" >>,
               impactStatement |-> << "Trust", " ", "drives", " ", "decisions" >> ]
        [] p = "marketing" ->
             [ name |-> << "Marketing", " ", "Consistency" >>,
               impactStatement |-> << "Inconsistent", " ", "marketing", " ", "leads" >> ]
        [] OTHER ->
             [ name |-> << "Tracking", " ", "&", " ", "Performance" >>,
               impactStatement |-> << "Without", " ", "tracking", " ", "you" >> ] ]

TierKeys == { "at_risk", "needs_improvement", "growth_ready", "market_leader" }

tiers ==
  [ t \in TierKeys |->
      CASE t = "at_risk" ->
             [ scoreMin |-> 0, scoreMax |-> 30,
               name |-> << "At", " ", "Risk" >>,
               summary |-> << "Your", " ", "online", " ", "presence" >>,
               descriptionBlock |-> << "Your", " ", "local", " ", "marketing", " ", "is", " ", "significantly" >> ]
        [] t = "needs_improvement" ->
             [ scoreMin |-> 31, scoreMax |-> 55,
               name |-> << "Needs", " ", "Improvement" >>,
               summary |-> << "You", " ", "have", " ", "a", " ", "foundation" >>,
               descriptionBlock |-> << "You've", " ", "made", " ", "a", " ", "start" >> ]
        [] t = "growth_ready" ->
             [ scoreMin |-> 56, scoreMax |-> 75,
               name |-> << "Growth", " ", "Ready" >>,
               summary |-> << "Your", " ", "marketing", " ", "is", " ", "working" >>,
               descriptionBlock |-> << "Your", " ", "local", " ", "marketing", " ", "foundation", " ", "is", " ", "solid." >> ]
        [] OTHER ->
             [ scoreMin |-> 76, scoreMax |-> 100,
               name |-> << "Market", " ", "Leader" >>,
               summary |-> << "You're", " ", "ahead" >>,
               descriptionBlock |-> << "Your", " ", "local", " ", "marketing", " ", "is", " ", "strong" >> ] ]

\* ------------------------------------------------------------------------
\* Text metrics of the embedded fonts and word wrapping
\* ------------------------------------------------------------------------
\* font.widthOfTextAtSize(text, size), in thousandths of a point: every
\* lexeme advances by half an em.
widthOfTextAtSize(fontKey, text, size) == 500 * Len(text) * size

\* text.split(' ')
RECURSIVE SplitWords(_, _)
SplitWords(text, cur) ==
  IF text = << >> THEN << cur >>
  ELSE IF Head(text) = " " THEN << cur >> \o SplitWords(Tail(text), << >>)
  ELSE SplitWords(Tail(text), Append(cur, Head(text)))

RECURSIVE WrapLoop(_, _, _, _, _)
WrapLoop(words, currentLine, fontKey, fontSize, maxWidth) ==
  IF words = << >>
  THEN IF currentLine # << >> THEN << currentLine >> ELSE << >>
  ELSE LET word == Head(words)
           candidate == IF currentLine # << >>
                        THEN currentLine \o << " " >> \o word ELSE word
           width == widthOfTextAtSize(fontKey, candidate, fontSize)
       IN  IF width > maxWidth /\ currentLine # << >>
           THEN << currentLine >> \o
                WrapLoop(Tail(words), word, fontKey, fontSize, maxWidth)
           ELSE WrapLoop(Tail(words), candidate, fontKey, fontSize, maxWidth)

wrapText(text, fontKey, fontSize, maxWidth) ==
  WrapLoop(SplitWords(text, << >>), << >>, fontKey, fontSize, maxWidth)

\* ------------------------------------------------------------------------
\* Replacement values
\* ------------------------------------------------------------------------
\* Object.entries(scores): the pairs in the order the keys were inserted.
Entries(scores) ==
  [ i \in 1..Len(PillarOrder) |-> << PillarOrder[i], scores[PillarOrder[i]] >> ]

\* Array.prototype.sort with (a, b) => a[1] - b[1]: ascending and stable,
\* an entry goes behind the sorted entries that are not greater.
RECURSIVE InsertEntry(_, _, _)
InsertEntry(sorted, entry, behindEqual) ==
  IF sorted = << >> THEN << entry >>
  ELSE IF Head(sorted)[2] < entry[2] \/ (behindEqual /\ Head(sorted)[2] = entry[2])
       THEN << Head(sorted) >> \o InsertEntry(Tail(sorted), entry, behindEqual)
       ELSE << entry >> \o sorted
RECURSIVE SortEntries(_, _, _)
SortEntries(sorted, entries, behindEqual) ==
  IF entries = << >> THEN sorted
  ELSE SortEntries(InsertEntry(sorted, Head(entries), behindEqual), Tail(entries),
                   behindEqual)

\* Variant: a sort that puts an entry before its equals.
getLowestPillar_Unstable(scores) ==
  SortEntries(<< >>, Entries(scores), FALSE)[1][1]

getLowestPillar(scores) ==
  SortEntries(<< >>, Entries(scores), TRUE)[1][1]

ReportDate == << "Nov", " ", "5,", " ", "2026" >>
PillarScoreText(n) == << ToString(n), "/20" >>

Replacements(d) ==
  LET tierData == tiers[d.tier]
      lowestPillar == getLowestPillar(d.pillarScores)
  IN  [ k \in PlaceholderKeys |->
          CASE k = "Business_Name" -> d.businessName
            [] k = "City_or_Service_Area" -> d.city
            [] k = "Report_Date" -> ReportDate
            [] k = "Total_Score" -> << ToString(d.totalScore) >>
            [] k = "Segment_Name" -> tierData.name
            [] k = "Segment_One_Liner" -> tierData.summary
            [] k = "Visibility_Score" -> PillarScoreText(d.pillarScores.visibility)
            [] k = "Conversion_Score" -> PillarScoreText(d.pillarScores.conversion)
            [] k = "Reputation_Score" -> PillarScoreText(d.pillarScores.reputation)
            [] k = "Marketing_Score" -> PillarScoreText(d.pillarScores.marketing)
            [] k = "Tracking_Score" -> PillarScoreText(d.pillarScores.tracking)
            [] k = "Lowest_Pillar_Name" -> pillars[lowestPillar].name
            [] k = "Lowest_Pillar_Impact_Statement" -> pillars[lowestPillar].impactStatement
            [] k = "Segment_Description_Block" -> tierData.descriptionBlock
            [] OTHER -> pillars[lowestPillar].name ]

\* ------------------------------------------------------------------------
\* Phase B: drawing
\* ------------------------------------------------------------------------
DrawText(by, key, posIdx, page, text, x, y, size, fontKey, color) ==
  [ kind |-> "text", by |-> by, key |-> key, posIdx |-> posIdx, page |-> page,
    text |-> text, x |-> x, y |-> y, size |-> size, fontKey |-> fontKey,
    color |-> color ]
DrawRectangle(by, posIdx, page, x, y, width, height, color, opacity) ==
  [ kind |-> "rect", by |-> by, key |-> "", posIdx |-> posIdx, page |-> page,
    x |-> x, y |-> y, width |-> width, height |-> height, color |-> color,
    opacity |-> opacity ]
DrawCircle(by, page, x, y, size, color, opacity) ==
  [ kind |-> "circle", by |-> by, key |-> "", posIdx |-> 0, page |-> page,
    x |-> x, y |-> y, size |-> size, color |-> color, opacity |-> opacity ]

\* Colours are in thousandths, opacities in hundredths.
Cmyk(c, m, y, k) == [ c |-> c, m |-> m, y |-> y, k |-> k ]
DarkColor == Cmyk(732, 672, 657, 820)
BlueColor == Cmyk(874, 526, 0, 0)
AccentColor == Cmyk(877, 533, 0, 0)
WhiteColor == Cmyk(0, 0, 0, 0)
YellowColor == Cmyk(11, 170, 981, 0)

\* Word-wrap and draw multi-line text.
drawMultiline(by, key, posIdx, page, text, fontKey, fontSize, x, y, color, config) ==
  LET wrappedLines == wrapText(text, fontKey, fontSize, config.maxWidth)
      lineSpacing == fontSize * config.lineHeight * 10
  IN  [ i \in 1..Len(wrappedLines) |->
          LET lineText == wrappedLines[i]
              lineY == y - (i - 1) * lineSpacing
              w == widthOfTextAtSize(fontKey, lineText, fontSize)
          IN  IF config.centered
              THEN DrawText(by, key, posIdx, page, lineText,
                            (PAGE_WIDTH - w) \div 2, lineY, fontSize, fontKey, color)
              ELSE DrawText(by, key, posIdx, page, lineText, x, lineY,
                            fontSize, fontKey, color) ]

\* The dynamic inner card of page 5 drawn before the description block.
InnerCard(pos, posIdx, rawValue, config) ==
  LET descLines == wrapText(rawValue, pos.fontKey, pos.fontSize, config.maxWidth)
      lineSpacing == pos.fontSize * config.lineHeight * 10
      textHeight == (Len(descLines) - 1) * lineSpacing + pos.fontSize * 1000
      innerLeft == 84700
      innerRight == 510600
      innerTop == 597400
      textStartY == innerTop - 25000
      innerBottom == textStartY - textHeight - 20000
      innerHeight == innerTop - innerBottom
  IN  << DrawRectangle("generic", posIdx, pos.pageIndex, innerLeft, innerBottom,
                       innerRight - innerLeft, innerHeight, BlueColor, 12),
         DrawRectangle("generic", posIdx, pos.pageIndex, 95900, innerBottom + 10000,
                       1548, innerHeight - 20000, AccentColor, 100) >>

IsCardPosition(pos) ==
  pos.key = "Segment_Description_Block" /\ pos.pageIndex = 4

\* Variant: the loop does not skip Total_Score on page 2.
GenericDraws_NoPage2Skip(pos, repl) ==
  /\ ~( pos.pageIndex = 6 /\ pos.key \in { "Business_Name", "Primary_Focus_Area" } )
  /\ ~( pos.pageIndex = 3 /\ pos.key \in { "Lowest_Pillar_Name", "Lowest_Pillar_Impact_Statement" } )
  /\ repl[pos.key] # Undefined
  /\ pos.key \in DOMAIN PLACEHOLDER_CONFIG

\* Whether the Phase B loop reaches the drawing code for a position.
GenericDraws(pos, repl) ==
  /\ ~( pos.pageIndex = 6 /\ pos.key \in { "Business_Name", "Primary_Focus_Area" } )
  /\ ~( pos.pageIndex = 3 /\ pos.key \in { "Lowest_Pillar_Name", "Lowest_Pillar_Impact_Statement" } )
  /\ repl[pos.key] # Undefined
  /\ pos.key \in DOMAIN PLACEHOLDER_CONFIG
  /\ ~( pos.key = "Total_Score" /\ pos.pageIndex = 1 )

\* The position as the loop body leaves it (the card moves the text).
MovedPosition(pos, repl) ==
  IF GenericDraws(pos, repl) /\ ~EndsWithScore(pos.key) /\ IsCardPosition(pos)
  THEN [ pos EXCEPT !.x = 115000, !.y = 597400 - 25000 ]
  ELSE pos

\* The draw commands one iteration of the Phase B loop emits.
PositionDraws(pos, posIdx, repl) ==
  IF ~GenericDraws(pos, repl) THEN << >>
  ELSE LET rawValue == repl[pos.key]
           value == rawValue \o pos.suffix
           config == PLACEHOLDER_CONFIG[pos.key]
           moved == MovedPosition(pos, repl)
       IN  IF EndsWithScore(pos.key)
           THEN << DrawText("generic", pos.key, posIdx, pos.pageIndex, value,
                     ScoreRightEdge - widthOfTextAtSize(pos.fontKey, value, pos.fontSize),
                     pos.y, pos.fontSize, pos.fontKey, pos.color) >>
           ELSE (IF IsCardPosition(pos)
                 THEN InnerCard(pos, posIdx, rawValue, config) ELSE << >>) \o
                (IF config.multiline
                 THEN drawMultiline("generic", pos.key, posIdx, pos.pageIndex, value,
                        pos.fontKey, pos.fontSize, moved.x, moved.y, pos.color, config)
                 ELSE IF config.centered
                 THEN << DrawText("generic", pos.key, posIdx, pos.pageIndex, value,
                           (PAGE_WIDTH - widthOfTextAtSize(pos.fontKey, value, pos.fontSize)) \div 2,
                           pos.y, pos.fontSize, pos.fontKey, pos.color) >>
                 ELSE << DrawText("generic", pos.key, posIdx, pos.pageIndex, value,
                           pos.x, pos.y, pos.fontSize, pos.fontKey, pos.color) >>)

RECURSIVE PhaseBDraws(_, _, _)
PhaseBDraws(poss, i, repl) ==
  IF i > Len(poss) THEN << >>
  ELSE PositionDraws(poss[i], i, repl) \o PhaseBDraws(poss, i + 1, repl)

\* ------------------------------------------------------------------------
\* Page-specific redraws
\* ------------------------------------------------------------------------
\* Score number and "out of 100" label centred as a pair in the ring.
drawPage2Score(totalScore) ==
  LET ringCenterX == 297637
      scoreBaseline == 466278
      labelBaseline == 447078
      scoreWidth == widthOfTextAtSize("robotoBold", totalScore, 52)
      labelWidth == widthOfTextAtSize("robotoBold", OutOf100, 20)
  IN  << DrawText("page2", "Total_Score", 0, 1, totalScore,
                  ringCenterX - scoreWidth \div 2, scoreBaseline, 52,
                  "robotoBold", DarkColor),
         DrawText("page2", "", 0, 1, OutOf100,
                  ringCenterX - labelWidth \div 2, labelBaseline, 20,
                  "robotoBold", BlueColor) >>

\* Variant: full opacity only above 16.
getScoreOpacity_Above16(score) ==
  IF score > 16 THEN 100 ELSE IF score >= 11 THEN 75 ELSE 50

\* Map a pillar score to dot opacity (in hundredths).
getScoreOpacity(score) ==
  IF score >= 16 THEN 100 ELSE IF score >= 11 THEN 75 ELSE 50

DotY ==
  [ p \in PillarKeySet |->
      CASE p = "visibility" -> 545954
        [] p = "conversion" -> 480546
        [] p = "reputation" -> 415137
        [] p = "marketing" -> 349729
        [] OTHER -> 284321 ]

drawPage3Dots(pillarScores) ==
  [ i \in 1..Len(PillarOrder) |->
      DrawCircle("page3", 2, 90815, DotY[PillarOrder[i]], 4645, BlueColor,
                 getScoreOpacity(pillarScores[PillarOrder[i]])) ]

\* Heading, pillar name and impact statement of page 4, centred vertically.
drawPage4Content(pillarName, impactStatement) ==
  LET headingSize == 30
      headingText == << "Your", " ", "Biggest Growth Opportunity" >>
      maxPillarWidth == PAGE_WIDTH - 54000
      fullWidth == widthOfTextAtSize("archivoExtraBold", pillarName, 50)
      \* pillar size in thousandths of a point
      pillarSize == IF fullWidth > maxPillarWidth
                    THEN (50000 * maxPillarWidth) \div fullWidth ELSE 50000
      impactSize == 22
      impactLines == wrapText(impactStatement, "robotoRegular", impactSize, 450000)
      impactLineSpacing == impactSize * 1300
      impactHeight == (Len(impactLines) - 1) * impactLineSpacing
      totalHeight == headingSize * 1000 + 20000 + pillarSize + 10000 + impactHeight
      startY == 60000 + (740000 - 60000 + totalHeight) \div 2
      headingW == widthOfTextAtSize("archivoExtraBold", headingText, headingSize)
      pillarY == startY - headingSize * 1000 - 20000
      pillarW == (widthOfTextAtSize("archivoExtraBold", pillarName, 1) * pillarSize) \div 1000
      impactY == pillarY - pillarSize - 10000
  IN  << DrawText("page4", "", 0, 3, headingText, (PAGE_WIDTH - headingW) \div 2,
                  startY, headingSize * 1000, "archivoExtraBold", WhiteColor),
         DrawText("page4", "Lowest_Pillar_Name", 0, 3, pillarName,
                  (PAGE_WIDTH - pillarW) \div 2, pillarY, pillarSize,
                  "archivoExtraBold", YellowColor) >> \o
      [ i \in 1..Len(impactLines) |->
          DrawText("page4", "Lowest_Pillar_Impact_Statement", 0, 3, impactLines[i],
                   (PAGE_WIDTH - widthOfTextAtSize("robotoRegular", impactLines[i], impactSize)) \div 2,
                   impactY - (i - 1) * impactLineSpacing, impactSize * 1000,
                   "robotoRegular", WhiteColor) ]

\* One centred line of the mixed-font sentence of page 7: parts are
\* << text, fontKey, key >> triples laid out left to right.
RECURSIVE PartsWidth(_)
PartsWidth(parts) ==
  IF parts = << >> THEN 0
  ELSE widthOfTextAtSize(Head(parts)[2], Head(parts)[1], 16) + PartsWidth(Tail(parts))

RECURSIVE LayParts(_, _, _)
LayParts(parts, x, y) ==
  IF parts = << >> THEN << >>
  ELSE LET part == Head(parts)
       IN  << DrawText("page7", part[3], 0, 6, part[1], x, y, 16, part[2], DarkColor) >> \o
           LayParts(Tail(parts), x + widthOfTextAtSize(part[2], part[1], 16), y)

SentenceLineDraws(parts, y) ==
  LayParts(parts, (PAGE_WIDTH - PartsWidth(parts)) \div 2, y)

drawPage7Sentence(businessName, primaryFocus) ==
  LET line1 == << << << "Businesses like", " " >>, "robotoRegular", "" >>,
                  << businessName, "robotoBold", "Business_Name" >>,
                  << << " ", "typically grow fastest by" >>, "robotoRegular", "" >> >>
      line2 == << << << "fixing", " " >>, "robotoRegular", "" >>,
                  << primaryFocus, "robotoBold", "Primary_Focus_Area" >>,
                  << << " ", "first." >>, "robotoRegular", "" >> >>
  IN  SentenceLineDraws(line1, 565681) \o SentenceLineDraws(line2, 549681)

\* The link annotation of the page 7 button.
Page7Link ==
  [ Subtype |-> "Link", Rect |-> << 146653, 426676, 448588, 480870 >>,
    URI |-> "https://localmarketingaudit.com" ]

\* The text a draw call sees for an argument: a string, or the value
\* `undefined` rendered by string coercion when the library accepts it.
Coerced(v) == IF v = Undefined THEN << "undefined" >> ELSE v

\* ------------------------------------------------------------------------
\* Inputs: the template and the report data
\* ------------------------------------------------------------------------
\* Resource name -> font identity, as built from the page's /Font
\* dictionary.  TT2 is not in the dictionary; C2_0 is, but is no TT name.
TemplateFontMap ==
  ("TT0" :> "robotoBold") @@ ("TT1" :> "archivoExtraBold") @@ ("C2_0" :> "robotoMedium")
pageFontMaps == [ p \in 0..(NumPages - 1) |-> TemplateFontMap ]

\* The byte count flateStream stores under /Length (a stand-in for the
\* deflated size: the number of lexemes of the stream text).
CompressedLength(contents) == Len(RawStream(contents))

\* context.flateStream(modified): a fresh dictionary with the two entries
\* that describe the encoded bytes.
flateStream(contents) ==
  [ contents |-> contents,
    dict |-> ("Length" :> CompressedLength(contents)) @@ ("Filter" :> "FlateDecode") ]

\* Variant: the new stream keeps only its own dictionary.
Recompress_FreshDict(oldDict, modified) ==
  flateStream(modified)

\* The stream assigned in place of a changed one: the entries of the old
\* dictionary other than /Length and /Filter are set on the new one.
Recompress(oldDict, modified) ==
  LET newStream == flateStream(modified)
  IN  [ newStream EXCEPT !.dict =
          [ k \in DOMAIN newStream.dict \cup DOMAIN oldDict |->
              IF k \in DOMAIN oldDict /\ k \notin { "Length", "Filter" }
              THEN oldDict[k] ELSE newStream.dict[k] ] ]

\* The dictionary of a deflated content stream of the template.
ContentsDict(contents) == flateStream(contents).dict

StreamWith(page, contents, dict) ==
  [ page |-> page, contents |-> contents, dict |-> dict ]
Stream(page, contents) == StreamWith(page, contents, ContentsDict(contents))

SeqsUpTo(S, n) == UNION { [ 1..k -> S ] : k \in 0..n }
SeqsFromTo(S, m, n) == UNION { [ 1..k -> S ] : k \in m..n }

Tok(key) == TJ(<< TokenText(key) >>, << >>)

\* State-setting lines.
StatePool ==
  { Tm(14, 14, 100000, 700000), Tm(0, 12, 50000, 60000),
    Td("Td", 2000, -1000), Td("TD", 0, -3000),
    Tf("TT0", 1), Tf("TT2", 1), Tf("C2_0", 1),
    FillK(1, 0, 0, 0), FillG(1) }

ScanShows ==
  { Tok("Business_Name"),
    Tj(TokenText("Visibility_Score") \o << "/20" >>) }

\* Show-text lines and other operators of a page stream.
ShowPool ==
  { Tok("Business_Name"),
    TJ(<< << "{" >>, << "{", "Business_Name", "}", "}" >> >>, << -5 >>),
    TJ(<< << "{", "{" >>, << "City_or_Service_Area" >>, << "}", "}" >> >>, << 12, -3 >>),
    Tj(TokenText("Total_Score")),
    TJ(<< << "Score:", " " >>, TokenText("Visibility_Score") \o << "/20" >> >>, << 7 >>),
    Tj(TokenText("Total_Score") \o << " " >> \o TokenText("Business_Name") \o << "!" >>),
    Tj(<< "{", "{", "Unknown", "}", "}" >>),
    TJ(<< << "Developer" >>, << " Note" >> >>, << -20 >>),
    Tj(DeveloperNote),
    TJ(<< << "this", " " >> \o SpecificSegment >>, << >>),
    Tj(<< "Hello" >>),
    Do("X10"), Do("X36"), Do("X19"), Do("X11"),
    Tj(OutOf100),
    TJ(<< << " " >>, Slash20 >>, << 3 >>),
    Tj(Slash20),
    TJ(<< << "Your", " " >>, BiggestGrowth >>, << 1 >>) }

\* Regions of the reference template that the per-page fixups target.
SentenceRegion ==
  << Plain("BT"), Tm(16, 16, 120000, 565681),
     TJ(<< << "Businesses lik" >>, << "e", " " >> >>, << 4 >>),
     Tok("Business_Name"),
     Tj(<< " ", "typically" >>),
     Plain("ET"),
     Tok("Primary_Focus_Area") >>
DotRegion ==
  << Plain("q"), Plain("cm_dot"), Plain("c"), Plain("f"), Plain("Q"),
     Do("X20"), Tok("Visibility_Score") >>
CardRegion ==
  << Do("X36"), Plain("re_accent"), Plain("f"), Tm(100, 100, 97000, 560000),
     Tok("Segment_Description_Block") >>
PlainRegion ==
  << Plain("q"), Plain("cm_dot"), Plain("re_accent"), Plain("f"), Plain("Q"),
     Plain("BT"), Tj(<< "Businesses lik", "e" >>), Plain("ET") >>
RegionStreams == { SentenceRegion, DotRegion, CardRegion, PlainRegion }

PageIndexes == 0..(NumPages - 1)
PageChoices == PageIndexes \cup { NoPage }

FullData ==
  [ businessName |-> << "Smith", " ", "Plumbing" >>,
    city |-> << "Austin" >>,
    totalScore |-> 75,
    tier |-> "growth_ready",
    pillarScores |-> [ visibility |-> 15, conversion |-> 10, reputation |-> 10,
                       marketing |-> 16, tracking |-> 20 ] ]

DataChoices ==
  { [ FullData EXCEPT !.businessName = b, !.city = c ] :
      b \in { FullData.businessName, Undefined },
      c \in { FullData.city, Undefined } }

\* A token line repeated n times, each after its own Tm.
RECURSIVE Repeated(_, _)
Repeated(key, n) ==
  IF n = 0 THEN << >>
  ELSE << Tm(14, 14, 100000, 700000 - 20000 * n), Tok(key) >> \o Repeated(key, n - 1)

MaxRepeat == 2

ScanInputs ==
  { [ template |-> << Stream(0, setup \o << show >>) >>, data |-> FullData ] :
      setup \in SeqsUpTo(StatePool, MaxSetup), show \in ScanShows }
PageInputs ==
  { [ template |-> << Stream(page, shows) >>, data |-> FullData ] :
      page \in PageChoices, shows \in SeqsFromTo(ShowPool, 1, MaxShow) }
RegionInputs ==
  { [ template |-> << Stream(page, region) >>, data |-> d ] :
      page \in PageChoices, region \in RegionStreams, d \in DataChoices }
DrawInputs ==
  { [ template |-> << Stream(page, Repeated(key, n)) >>, data |-> d ] :
      page \in PageIndexes, key \in PlaceholderKeys, n \in 1..MaxRepeat,
      d \in DataChoices }
MultiInputs ==
  { [ template |-> << Stream(0, << Tok("Business_Name") >>), s >>, data |-> FullData ] :
      s \in { Stream(NoPage, << Tok("Report_Date") >>),
              Stream(1, << Tj(TokenText("Total_Score")) >>),
              Stream(5, << Tj(<< "Hello" >>) >>) } }

\* Stream dictionaries: a plain deflated stream, an undeflated one, a form
\* XObject and a stream with decode parameters.
StreamDicts(contents) ==
  { ContentsDict(contents),
    "Length" :> (CompressedLength(contents) + 1),
    ContentsDict(contents) @@ ("Type" :> "XObject") @@ ("Subtype" :> "Form")
      @@ ("BBox" :> "0 0 595 842") @@ ("Resources" :> "12 0 R"),
    ContentsDict(contents) @@ ("DecodeParms" :> "Predictor 12") }
DictInputs ==
  { [ template |-> << StreamWith(page, contents, dict) >>, data |-> FullData ] :
      page \in { 0, 1, NoPage },
      contents \in { << Tok("Business_Name") >>, << Tj(<< "Hello" >>) >>,
                     << Tj(OutOf100), Tj(<< "{", "{" >>) >> },
      dict \in StreamDicts(<< Tok("Business_Name") >>) }

Inputs ==
  ScanInputs \cup PageInputs \cup RegionInputs \cup DrawInputs \cup MultiInputs
    \cup DictInputs

\* ------------------------------------------------------------------------
\* generatePdfBuffer as a state machine
\* ------------------------------------------------------------------------
VARIABLES pc, template, data, replacements, objects, next, positions, draws,
          annots, result, call, ret,
          templateCache, fontCache, diskReads, gens,
          reports, reqs, tasks,
          leads, captures

\* The state of a generatePdfBuffer call, and a call of one of the pure
\* functions with its return value.
pdfVars == << pc, template, data, replacements, objects, next, positions, draws,
              annots, result >>
libVars == << call, ret >>
\* The caches of a PdfService instance with its concurrent calls, the
\* report collection with the ReportService calls and background tasks in
\* flight, and the lead collection with the LeadService calls in flight.
cacheVars == << templateCache, fontCache, diskReads, gens >>
reportVars == << reports, reqs, tasks >>
leadVars == << leads, captures >>
svcVars == << cacheVars, reportVars, leadVars >>
vars == << pc, template, data, replacements, objects, next, positions, draws,
           annots, result, call, ret, templateCache, fontCache, diskReads, gens,
           reports, reqs, tasks, leads, captures >>

\* No service call is in flight.
SvcIdle ==
  /\ templateCache = << >>
  /\ fontCache = << >>
  /\ diskReads = << >>
  /\ gens = << >>
  /\ reports = { }
  /\ reqs = << >>
  /\ tasks = << >>
  /\ leads = { }
  /\ captures = << >>

NoCall == [ fn |-> "none" ]
NoReturn == [ done |-> FALSE ]

Init ==
  \E in \in Inputs :
    /\ template = in.template
    /\ data = in.data
    /\ pc = "start"
    /\ replacements = [ k \in PlaceholderKeys |-> Undefined ]
    /\ objects = << >>
    /\ next = 1
    /\ positions = << >>
    /\ draws = << >>
    /\ annots = << >>
    /\ result = "none"
    /\ call = NoCall
    /\ ret = NoReturn
    /\ SvcIdle

\* Build the replacement map and load the template document.
Load ==
  /\ pc = "start"
  /\ replacements' = Replacements(data)
  /\ objects' = [ i \in 1..Len(template) |->
                    [ page |-> template[i].page, contents |-> template[i].contents,
                      dict |-> template[i].dict, assigned |-> FALSE ] ]
  /\ next' = 1
  /\ pc' = "blank"
  /\ UNCHANGED << template, data, positions, draws, annots, result >>
  /\ UNCHANGED << libVars, svcVars >>

\* One iteration of the Phase A loop over the stream objects.
BlankStream ==
  /\ pc = "blank"
  /\ next <= Len(objects)
  /\ LET obj == objects[next]
     IN  IF obj.page = NoPage
         THEN UNCHANGED << objects, positions >>
         ELSE LET r == BlankPhase(obj.contents, obj.page, pageFontMaps[obj.page])
              IN  /\ positions' = positions \o r.positions
                  /\ objects' =
                       IF r.output # obj.contents
                       THEN LET newStream == Recompress(obj.dict, r.output)
                            IN  [ objects EXCEPT ![next] =
                                    [ page |-> obj.page,
                                      contents |-> newStream.contents,
                                      dict |-> newStream.dict,
                                      assigned |-> TRUE ] ]
                       ELSE objects
  /\ next' = next + 1
  /\ UNCHANGED << pc, template, data, replacements, draws, annots, result >>
  /\ UNCHANGED << libVars, svcVars >>

\* Variant: the draw loop starts although stream objects are left to scan.
DrawPass_BeforeScanEnds ==
  /\ pc = "blank"
  /\ next > 1
  /\ draws' = draws \o PhaseBDraws(positions, 1, replacements)
  /\ positions' = [ i \in 1..Len(positions) |-> MovedPosition(positions[i], replacements) ]
  /\ pc' = "redraw"
  /\ UNCHANGED << template, data, replacements, objects, next, annots, result >>
  /\ UNCHANGED << libVars, svcVars >>

\* Phase B: the loop over the recorded positions.
DrawPass ==
  /\ pc = "blank"
  /\ next > Len(objects)
  /\ draws' = draws \o PhaseBDraws(positions, 1, replacements)
  /\ positions' = [ i \in 1..Len(positions) |-> MovedPosition(positions[i], replacements) ]
  /\ pc' = "redraw"
  /\ UNCHANGED << template, data, replacements, objects, next, annots, result >>
  /\ UNCHANGED << libVars, svcVars >>

\* The page-specific redraws and the link annotation.  drawPage7Sentence
\* measures its arguments without a guard; for a missing argument the font
\* library either rejects the value (the call throws) or coerces it.
PageRedraws ==
  /\ pc = "redraw"
  /\ LET before == drawPage2Score(replacements["Total_Score"]) \o
                   drawPage3Dots(data.pillarScores) \o
                   drawPage4Content(replacements["Lowest_Pillar_Name"],
                                    replacements["Lowest_Pillar_Impact_Statement"])
         missing == replacements["Business_Name"] = Undefined
                    \/ replacements["Primary_Focus_Area"] = Undefined
     IN  \/ /\ missing
            /\ draws' = draws \o before
            /\ pc' = "failed"
            /\ result' = "error"
            /\ UNCHANGED annots
         \/ /\ draws' = draws \o before \o
                 drawPage7Sentence(Coerced(replacements["Business_Name"]),
                                   Coerced(replacements["Primary_Focus_Area"]))
            /\ annots' = Append(annots, Page7Link)
            /\ pc' = "save"
            /\ UNCHANGED result
  /\ UNCHANGED << template, data, replacements, objects, next, positions >>
  /\ UNCHANGED << libVars, svcVars >>

\* pdfDoc.save()
Save ==
  /\ pc = "save"
  /\ pc' = "done"
  /\ result' = "bytes"
  /\ UNCHANGED << template, data, replacements, objects, next, positions, draws, annots >>
  /\ UNCHANGED << libVars, svcVars >>

Next == Load \/ BlankStream \/ DrawPass \/ PageRedraws \/ Save

Spec == Init /\ [][Next]_vars

\* ------------------------------------------------------------------------
\* Vocabulary of the properties
\* ------------------------------------------------------------------------
\* The page stream objects of the template, and those Phase A has passed.
PageStreams == { s \in 1..Len(template) : template[s].page # NoPage }
Scanned == { s \in PageStreams : pc # "start" /\ s < next }
PhaseADone == pc \in { "redraw", "save", "done", "failed" } \/ (pc = "blank" /\ next > Len(objects))

\* The stream blankAndRecordPositions is handed for object s.
ScanInput(s) ==
  PageFixups(blankDeveloperNote(template[s].contents), template[s].page)

RawHas(stream, pat) == Includes(RawStream(stream), pat)
\* Phase A does not skip object s.
GatePasses(s) ==
  RawHas(template[s].contents, OpenBraces) \/ RawHas(template[s].contents, DeveloperNote)

KnownTokenIn(text) ==
  \E k \in PlaceholderKeys : Includes(text, TokenText(k))
\* The first key of the fixed order whose token the text contains.
FirstKeyIn(text) ==
  ALL_PLACEHOLDERS[
    CHOOSE i \in 1..Len(ALL_PLACEHOLDERS) :
      /\ Includes(text, TokenText(ALL_PLACEHOLDERS[i]))
      /\ \A j \in 1..(i - 1) : ~Includes(text, TokenText(ALL_PLACEHOLDERS[j])) ]
TokenLine(line) == line.op \in { "TJ", "Tj" } /\ KnownTokenIn(ShowText(line))
MarkerLine(line) ==
  /\ line.op \in { "TJ", "Tj" }
  /\ Includes(ShowText(line), DeveloperNote) \/ Includes(ShowText(line), SpecificSegment)

\* The indexes of the token lines of a stream, in order.
RECURSIVE TokenLinesFrom(_, _)
TokenLinesFrom(stream, i) ==
  IF i > Len(stream) THEN << >>
  ELSE (IF TokenLine(stream[i]) THEN << i >> ELSE << >>) \o TokenLinesFrom(stream, i + 1)
TokenLines(stream) == TokenLinesFrom(stream, 1)

\* The positions recorded for a page, in order (a page has one stream).
OnPage(page) == SelectSeq(positions, LAMBDA p : p.pageIndex = page)

\* All ways of cutting a text at up to MaxCuts places, and the kerning
\* values placed between the fragments.
MaxCuts == 2
KernValues == { -120, 0, 7 }
CutSets(n) == { c \in SUBSET (1..(n - 1)) : Cardinality(c) <= MaxCuts }
RECURSIVE CutAt(_, _, _)
CutAt(text, cuts, from) ==
  IF \E c \in cuts : c >= from
  THEN LET c == CHOOSE c \in cuts : c >= from /\ \A d \in cuts : d >= from => c <= d
       IN  << SubSeq(text, from, c) >> \o CutAt(text, cuts, c + 1)
  ELSE << SubSeq(text, from, Len(text)) >>
Fragmentations(text) ==
  { TJ(CutAt(text, cuts, 1), [ i \in 1..Cardinality(cuts) |-> k ]) :
      cuts \in CutSets(Len(text)), k \in KernValues }

\* C1: in blankAndRecordPositions the detection for a one-line TJ array
\* depends only on the concatenation of its literals: replacing the array by
\* any other fragmentation of the same text, with any kerning values, gives
\* the same recorded positions and the same output lines.
C1_FragmentationInvariance ==
  \A s \in PageStreams :
    LET stream == template[s].contents
        page == template[s].page
        fm == pageFontMaps[page]
    IN  \A i \in 1..Len(stream) :
          stream[i].op = "TJ" =>
            \A alt \in Fragmentations(extractTJText(stream[i])) :
              LET a == blankAndRecordPositions(stream, page, fm)
                  b == blankAndRecordPositions([ stream EXCEPT ![i] = alt ], page, fm)
              IN  /\ b.positions = a.positions
                  /\ (b.output[i] = BlankTj) = (a.output[i] = BlankTj)
                  /\ \A j \in 1..Len(stream) : j # i => b.output[j] = a.output[j]

\* C2: after blankAndRecordPositions has run on a stream, every show-text
\* line whose concatenated text contains a known token is `() Tj`, one
\* position is recorded for it under the first key of the fixed order that
\* its text contains, and the number of positions recorded for the stream is
\* the number of lines the scan blanked.
C2_EveryTokenLineBlankedAndRecorded ==
  \A s \in Scanned :
    GatePasses(s) =>
      LET in == ScanInput(s)
          out == objects[s].contents
          ps == OnPage(template[s].page)
          tl == TokenLines(in)
      IN  /\ Len(out) = Len(in)
          /\ \A i \in 1..Len(in) : TokenLine(in[i]) => out[i] = BlankTj
          /\ Len(ps) = Len(tl)
          /\ \A k \in 1..Len(ps) : ps[k].key = FirstKeyIn(ShowText(in[tl[k]]))
          /\ Len(ps) = Cardinality({ i \in 1..Len(in) : out[i] # in[i] })

\* What the per-page fixups of a page index look for in a stream.
HasFixupTarget(stream, page) ==
  LET lineIs(P(_)) == \E i \in 1..Len(stream) : P(stream[i])
      isDo(names) == \E i \in 1..Len(stream) :
                       stream[i].op = "Do" /\ stream[i].name \in names
  IN  CASE page = 1 ->
             isDo({ "X10" }) \/ lineIs(LAMBDA l : l.op = "Tj" /\ l.text = OutOf100)
        [] page = 2 ->
             \/ isDo({ "X19", "X20", "X21", "X22" })
             \/ lineIs(LAMBDA l : l.op = "TJ" /\ Trim(Flatten(l.frags)) = Slash20)
             \/ lineIs(LAMBDA l : l.op = "Tj" /\ l.text = Slash20)
             \/ \E i \in 1..Len(stream) : DotMatch(stream, i)
        [] page = 3 ->
             lineIs(LAMBDA l : l.op = "TJ" /\ Includes(Flatten(l.frags), BiggestGrowth))
        [] page = 4 ->
             \/ isDo({ "X36" })
             \/ \E i \in 1..(Len(stream) - 1) :
                  stream[i].op = "re_accent" /\ stream[i + 1].op = "f"
        [] page = 6 -> RawHas(stream, BusinessesLik)
        [] OTHER -> FALSE

NoTokenNoMarker(stream) ==
  \A i \in 1..Len(stream) : ~TokenLine(stream[i]) /\ ~MarkerLine(stream[i])

\* C3 (as claimed): a page stream without known token and without
\* internal-note marker comes out of the blank phase unchanged and is not
\* reassigned, on every page index.
C3_NonMatchingStreamUnchanged ==
  \A s \in Scanned :
    NoTokenNoMarker(template[s].contents) =>
      objects[s].contents = template[s].contents /\ ~objects[s].assigned

\* C3 (amended): a page stream without known token, without internal-note
\* marker and without any target of the fixups registered for its page index
\* comes out of the blank phase unchanged and is not reassigned.
C3_StreamWithoutTargetsUnchanged ==
  \A s \in Scanned :
    ( NoTokenNoMarker(template[s].contents)
      /\ ~HasFixupTarget(template[s].contents, template[s].page) ) =>
      objects[s].contents = template[s].contents /\ ~objects[s].assigned

\* A scanned stream with stray `{{` text, so that Phase A did not skip it,
\* and nothing to blank.
C3_Witness ==
  \E s \in Scanned :
    /\ NoTokenNoMarker(template[s].contents)
    /\ ~HasFixupTarget(template[s].contents, template[s].page)
    /\ RawHas(template[s].contents, OpenBraces)
    /\ \E i \in 1..Len(template[s].contents) : template[s].contents[i].op = "Do"
    /\ objects[s].contents = template[s].contents

\* C4: after the blank phase no show-text operator of a page stream has
\* concatenated text containing `Developer Note` or `specific segment`.
C4_NoInternalNoteLeft ==
  PhaseADone =>
    \A s \in PageStreams :
      \A i \in 1..Len(objects[s].contents) : ~MarkerLine(objects[s].contents[i])

\* The last line before line i that satisfies P (0 when there is none).
LastBefore(stream, i, P(_)) ==
  IF \E j \in 1..(i - 1) : P(stream[j])
  THEN CHOOSE j \in 1..(i - 1) :
         P(stream[j]) /\ \A h \in (j + 1)..(i - 1) : ~P(stream[h])
  ELSE 0

\* The sum of scale * (dx or dy) over the Td / TD lines strictly between
\* lines t and i.
RECURSIVE MoveSum(_, _, _, _, _)
MoveSum(stream, t, i, axis, scale) ==
  IF t + 1 >= i THEN 0
  ELSE (IF stream[i - 1].op \in { "Td", "TD" }
        THEN scale * (IF axis = "x" THEN stream[i - 1].dx ELSE stream[i - 1].dy)
        ELSE 0)
       + MoveSum(stream, t, i - 1, axis, scale)

\* C5: a recorded position holds the translation of the most recent Tm line
\* before its show-text line plus, for every Td/TD line in between,
\* (dx * a, dy * d) with the scale operands of that Tm; its fontSize is the
\* Tm's a operand, or its d operand when a is 0.
C5_PositionFromTmAndTd ==
  pc = "blank" =>
    \A s \in Scanned :
      LET in == ScanInput(s)
          ps == OnPage(template[s].page)
          tl == TokenLines(in)
      IN  \A k \in 1..Len(ps) :
            LET i == tl[k]
                t == LastBefore(in, i, LAMBDA l : l.op = "Tm")
            IN  t > 0 =>
                  /\ ps[k].x = in[t].tx + MoveSum(in, t, i, "x", in[t].a)
                  /\ ps[k].y = in[t].ty + MoveSum(in, t, i, "y", in[t].d)
                  /\ ps[k].fontSize = IF in[t].a # 0 THEN in[t].a ELSE in[t].d

\* A position recorded after a relative move, a Tm that discards it, and a
\* further relative move.
C5_Witness ==
  /\ pc = "blank"
  /\ \E s \in Scanned :
       LET in == ScanInput(s)
           ps == OnPage(template[s].page)
           tl == TokenLines(in)
       IN  \E k \in 1..Len(ps) :
             LET i == tl[k]
                 t == LastBefore(in, i, LAMBDA l : l.op = "Tm")
             IN  /\ t > 1
                 /\ in[t - 1].op \in { "Td", "TD" }
                 /\ \E j \in (t + 1)..(i - 1) : in[j].op \in { "Td", "TD" }
                 /\ ps[k].x # in[t].tx

\* C6: the colour of a recorded position is that of the most recent fill
\* colour line (k or g) before its show-text line, gray 0 when there is none.
C6_ColorOfLastFillOperator ==
  \A s \in Scanned :
    LET in == ScanInput(s)
        ps == OnPage(template[s].page)
        tl == TokenLines(in)
    IN  \A k \in 1..Len(ps) :
          LET c == LastBefore(in, tl[k], LAMBDA l : l.op \in { "k", "g" })
          IN  ps[k].color =
                IF c = 0 THEN [ gray |-> 0 ]
                ELSE IF in[c].op = "g" THEN [ gray |-> in[c].gray ]
                ELSE [ c |-> in[c].c, m |-> in[c].m, y |-> in[c].y, k |-> in[c].k ]

\* A position recorded after a process colour and then a gray operator.
C6_Witness ==
  \E s \in Scanned :
    LET in == ScanInput(s)
        ps == OnPage(template[s].page)
        tl == TokenLines(in)
    IN  \E k \in 1..Len(ps) :
          LET c == LastBefore(in, tl[k], LAMBDA l : l.op \in { "k", "g" })
          IN  /\ c > 1
              /\ in[c].op = "g"
              /\ \E h \in 1..(c - 1) : in[h].op = "k"
              /\ ps[k].color = [ gray |-> in[c].gray ]

\* C7: the fontKey of a recorded position is the identity the page's font
\* map gives the resource name of the most recent Tf line whose name is in
\* the map, robotoRegular when there is none.
C7_FontOfLastResolvableTf ==
  \A s \in Scanned :
    LET in == ScanInput(s)
        ps == OnPage(template[s].page)
        tl == TokenLines(in)
        fm == pageFontMaps[template[s].page]
    IN  \A k \in 1..Len(ps) :
          LET f == LastBefore(in, tl[k],
                     LAMBDA l : l.op = "Tf" /\ l.name \in DOMAIN fm)
          IN  ps[k].fontKey = IF f = 0 THEN "robotoRegular" ELSE fm[in[f].name]

\* The text draws of the generic pass for position idx, in draw order.
GenericTextDraws(idx) ==
  SelectSeq(draws, LAMBDA d : d.kind = "text" /\ d.by = "generic" /\ d.posIdx = idx)
\* The text draws of the page-specific redraws of a key on a page.
DedicatedTextDraws(key, page) ==
  SelectSeq(draws, LAMBDA d : d.kind = "text" /\ d.by # "generic"
                              /\ d.key = key /\ d.page = page)

\* The draws' texts joined by single spaces.
RECURSIVE JoinTexts(_)
JoinTexts(ds) ==
  IF ds = << >> THEN << >>
  ELSE IF Len(ds) = 1 THEN ds[1].text
  ELSE ds[1].text \o << " " >> \o JoinTexts(Tail(ds))

\* The show-text line of the scan input that position idx was recorded for.
StreamOfPage(page) == CHOOSE s \in PageStreams : template[s].page = page
RankOnPage(idx) ==
  Cardinality({ j \in 1..idx : positions[j].pageIndex = positions[idx].pageIndex })
LineOfPosition(idx) ==
  LET in == ScanInput(StreamOfPage(positions[idx].pageIndex))
  IN  in[TokenLines(in)[RankOnPage(idx)]]

\* The characters after the end of the first occurrence of the token.
TextAfterToken(text, key) ==
  LET tok == TokenText(key)
      n == CHOOSE n \in 1..Len(text) :
             /\ SubSeq(text, n, n + Len(tok) - 1) = tok
             /\ \A m \in 1..(n - 1) : SubSeq(text, m, m + Len(tok) - 1) # tok
  IN  SubSeq(text, n + Len(tok), Len(text))

DrawPhaseDone == pc \in { "redraw", "save", "done", "failed" }

\* C8: the text the generic draw pass draws for a recorded position is the
\* replacement value of its token followed by the characters that follow
\* the first occurrence of the token in the operator's concatenated text.
C8_DrawnTextIsValuePlusSuffix ==
  DrawPhaseDone =>
    \A idx \in 1..Len(positions) :
      GenericTextDraws(idx) # << >> =>
        JoinTexts(GenericTextDraws(idx)) =
          replacements[positions[idx].key]
            \o TextAfterToken(ShowText(LineOfPosition(idx)), positions[idx].key)

\* A generic draw for an operator with literal text before and after the
\* token.
C8_Witness ==
  /\ DrawPhaseDone
  /\ \E idx \in 1..Len(positions) :
       LET text == ShowText(LineOfPosition(idx))
           key == positions[idx].key
       IN  /\ GenericTextDraws(idx) # << >>
           /\ TextAfterToken(text, key) # << >>
           /\ SubSeq(text, 1, Len(TokenText(key))) # TokenText(key)

\* C9: a missing replacement value never makes generation fail and nothing
\* is drawn for a token without value.
C9_MissingValueSkipped ==
  /\ pc # "failed"
  /\ result # "error"
  /\ \A i \in 1..Len(draws) :
       (draws[i].kind = "text" /\ draws[i].key \in PlaceholderKeys) =>
         replacements[draws[i].key] # Undefined

\* The number of recorded positions of a key on a page, and the number of
\* draws of the key's replacement on the page: one per generic iteration
\* that drew, plus one when a page-specific redraw drew it.
PositionsOf(key, page) ==
  { idx \in 1..Len(positions) :
      positions[idx].key = key /\ positions[idx].pageIndex = page }
DrawsOf(key, page) ==
  Cardinality({ idx \in PositionsOf(key, page) : GenericTextDraws(idx) # << >> })
  + (IF DedicatedTextDraws(key, page) # << >> THEN 1 ELSE 0)

\* C10 (as claimed): each recorded position whose token has a value gets
\* exactly one draw of the replacement on its page, by the generic pass or
\* by the page's redraw, for any number of positions of a token on a page.
C10_OneDrawPerPosition ==
  pc \in { "save", "done" } =>
    \A key \in PlaceholderKeys, page \in PageIndexes :
      (PositionsOf(key, page) # { } /\ replacements[key] # Undefined) =>
        DrawsOf(key, page) = Cardinality(PositionsOf(key, page))

\* The positions left to a page-specific redraw.
Reserved(pos) ==
  \/ pos.pageIndex = 1 /\ pos.key = "Total_Score"
  \/ pos.pageIndex = 3 /\ pos.key \in { "Lowest_Pillar_Name", "Lowest_Pillar_Impact_Statement" }
  \/ pos.pageIndex = 6 /\ pos.key \in { "Business_Name", "Primary_Focus_Area" }

\* C10 (amended): when the draw phase has completed, a recorded position
\* whose token has a value is drawn by the generic pass exactly once and by
\* no page redraw, unless it is left to its page's redraw: then the generic
\* pass draws nothing for it and the redraw draws the replacement once for
\* the page, however many such positions the page has.
C10_OneDrawPerPositionOrPage ==
  pc \in { "save", "done" } =>
    \A idx \in 1..Len(positions) :
      LET pos == positions[idx]
          g == GenericTextDraws(idx)
          d == DedicatedTextDraws(pos.key, pos.pageIndex)
      IN  replacements[pos.key] # Undefined =>
            IF Reserved(pos)
            THEN g = << >> /\ d # << >> /\ JoinTexts(d) = replacements[pos.key]
            ELSE /\ d = << >>
                 /\ g # << >>
                 /\ PLACEHOLDER_CONFIG[pos.key].multiline \/ Len(g) = 1
                 /\ \A i \in 1..Len(g) : g[i].key = pos.key /\ g[i].page = pos.pageIndex

\* Two positions of one token left to a page redraw, and the draw phase done.
C10_Witness ==
  /\ pc = "done"
  /\ \E i, j \in 1..Len(positions) :
       /\ i # j
       /\ positions[i].key = positions[j].key
       /\ positions[i].pageIndex = positions[j].pageIndex
       /\ Reserved(positions[i])
       /\ DedicatedTextDraws(positions[i].key, positions[i].pageIndex) # << >>

\* ------------------------------------------------------------------------
\* Centered single-line tokens
\* ------------------------------------------------------------------------
CenteredSingleLine(key) ==
  PLACEHOLDER_CONFIG[key].centered /\ ~PLACEHOLDER_CONFIG[key].multiline

\* A text draw of the key's page at the centred x and the recorded y.
DrawnCentered(idx) ==
  \E i \in 1..Len(draws) :
    /\ draws[i].kind = "text"
    /\ draws[i].key = positions[idx].key
    /\ draws[i].page = positions[idx].pageIndex
    /\ draws[i].x = (PAGE_WIDTH - widthOfTextAtSize(draws[i].fontKey,
                       draws[i].text, positions[idx].fontSize)) \div 2
    /\ draws[i].y = positions[idx].y

\* C11: every recorded position of a centered single-line token that has a
\* value is drawn at x = PAGE_WIDTH/2 - width/2 and at the recorded y, on
\* whatever page it was found.
C11_CenteredTokenDrawnCentered ==
  DrawPhaseDone =>
    \A idx \in 1..Len(positions) :
      ( CenteredSingleLine(positions[idx].key)
        /\ replacements[positions[idx].key] # Undefined ) => DrawnCentered(idx)

\* The part of C11 that the centered branch of the draw loop delivers: the
\* centered single-line tokens that do not end in _Score.
C11_SegmentNameDrawnCentered ==
  DrawPhaseDone =>
    \A idx \in 1..Len(positions) :
      ( CenteredSingleLine(positions[idx].key)
        /\ ~EndsWithScore(positions[idx].key)
        /\ replacements[positions[idx].key] # Undefined ) => DrawnCentered(idx)

C11_SegmentNameWitness ==
  /\ DrawPhaseDone
  /\ \E idx \in 1..Len(positions) :
       positions[idx].key = "Segment_Name" /\ DrawnCentered(idx)

\* ------------------------------------------------------------------------
\* Every stream object
\* ------------------------------------------------------------------------
\* Stream object i still shows a known token.
ShowsToken(i) ==
  \E j \in 1..Len(objects[i].contents) : TokenLine(objects[i].contents[j])

\* C12: after generation no stream object, whether or not it is directly a
\* page's Contents entry, still has a show-text operator whose concatenated
\* text contains one of the 15 known tokens.
C12_NoTokenLeftInAnyStream ==
  pc = "done" => \A i \in 1..Len(objects) : ~ShowsToken(i)

\* ------------------------------------------------------------------------
\* Recompression
\* ------------------------------------------------------------------------
RecomputedKeys == { "Length", "Filter" }

\* Stream object i, registered under the reference of template stream i,
\* carries every entry of the original dictionary but the recomputed two.
KeepsDictionary(i) ==
  /\ objects[i].page = template[i].page
  /\ \A k \in DOMAIN template[i].dict \ RecomputedKeys :
       k \in DOMAIN objects[i].dict /\ objects[i].dict[k] = template[i].dict[k]
  /\ objects[i].dict["Length"] = CompressedLength(objects[i].contents)
  /\ objects[i].dict["Filter"] = "FlateDecode"

\* C13: a stream whose text the blank phase changed is assigned under the
\* same reference with every original dictionary entry except /Length and
\* /Filter, which are recomputed; a stream whose text is unchanged is never
\* reassigned.
C13_RecompressKeepsDictionary ==
  /\ Len(objects) \in { 0, Len(template) }
  /\ \A i \in 1..Len(objects) :
       IF objects[i].contents # template[i].contents
       THEN objects[i].assigned /\ KeepsDictionary(i)
       ELSE /\ ~objects[i].assigned
            /\ objects[i].dict = template[i].dict

\* A reassigned stream that kept its /BBox while its /Length changed.
C13_Witness ==
  \E i \in 1..Len(objects) :
    /\ objects[i].assigned
    /\ "BBox" \in DOMAIN objects[i].dict
    /\ objects[i].dict["Length"] # template[i].dict["Length"]

MetricFonts == { "Roboto-Bold", "Roboto-Regular", "Roboto-Medium", "Archivo-ExtraBold", "Archivo-Bold" }

FONT_METRICS ==
  [ f \in MetricFonts |->
      CASE f = "Roboto-Bold" ->
           [ firstChar |-> 32, lastChar |-> 125, defaultWidth |-> 500,
             widths |-> <<
             249, 0, 0, 0, 0, 0, 656, 0, 0, 0, 0, 0, 0, 0, 0, 0,
             574, 574, 0, 0, 0, 0, 0, 0, 0, 0, 0, 0, 0, 0, 0, 0,
             0, 673, 638, 654, 650, 0, 548, 0, 0, 0, 0, 0, 542, 876, 706, 690,
             645, 0, 638, 615, 619, 658, 654, 875, 0, 618, 0, 0, 0, 0, 0, 446,
             0, 536, 563, 521, 0, 541, 358, 571, 560, 265, 0, 534, 265, 866, 560, 565,
             563, 0, 365, 514, 338, 560, 505, 0, 509, 502, 0, 330, 0, 330 >> ]
        [] f = "Roboto-Regular" ->
           [ firstChar |-> 32, lastChar |-> 125, defaultWidth |-> 500,
             widths |-> <<
             248, 0, 0, 0, 0, 0, 0, 174, 342, 348, 0, 0, 196, 276, 263, 412,
             562, 562, 562, 0, 0, 562, 562, 0, 0, 0, 242, 0, 0, 0, 0, 0,
             0, 652, 623, 651, 656, 0, 553, 0, 0, 272, 0, 0, 538, 873, 713, 0,
             631, 0, 0, 593, 597, 0, 0, 0, 0, 0, 265, 0, 265, 0, 451, 0,
             544, 561, 523, 564, 530, 347, 561, 551, 243, 0, 507, 243, 876, 552, 570,
             561, 0, 338, 516, 327, 551, 484, 751, 496, 473, 0, 338, 0, 338 >> ]
        [] f = "Roboto-Medium" ->
           [ firstChar |-> 32, lastChar |-> 125, defaultWidth |-> 500,
             widths |-> <<
             249, 0, 0, 0, 0, 0, 0, 0, 0, 0, 0, 0, 0, 0, 0, 0,
             0, 0, 0, 0, 0, 0, 0, 0, 0, 0, 0, 0, 0, 0, 0, 0,
             0, 0, 0, 0, 0, 0, 549, 0, 0, 0, 0, 0, 0, 875, 710, 0,
             0, 0, 0, 604, 0, 652, 0, 0, 0, 0, 0, 0, 0, 0, 0, 451,
             0, 541, 0, 523, 0, 537, 0, 567, 0, 0, 0, 522, 255, 870, 556, 569,
             0, 0, 352, 0, 333, 556, 0, 0, 0, 487, 0, 335, 0, 335 >> ]
        [] f = "Archivo-ExtraBold" ->
           [ firstChar |-> 32, lastChar |-> 125, defaultWidth |-> 500,
             widths |-> <<
             189, 0, 0, 0, 0, 0, 0, 0, 0, 0, 0, 0, 0, 0, 0, 0,
             0, 0, 0, 0, 0, 0, 0, 0, 0, 0, 0, 0, 0, 0, 0, 0,
             0, 746, 745, 752, 755, 0, 0, 0, 787, 0, 0, 0, 623, 914, 787, 0,
             698, 0, 750, 697, 0, 0, 0, 0, 0, 0, 0, 0, 0, 0, 0, 534,
             0, 616, 0, 612, 0, 619, 0, 632, 629, 288, 0, 610, 288, 937, 629, 635,
             633, 0, 407, 579, 385, 629, 574, 859, 0, 574, 0, 391, 0, 391 >> ]
        [] OTHER ->  \* Archivo-Bold
           [ firstChar |-> 32, lastChar |-> 121, defaultWidth |-> 500,
             widths |-> <<
             196, 0, 0, 0, 0, 0, 0, 0, 0, 0, 0, 0, 0, 0, 0, 0,
             595, 0, 596, 596, 0, 595, 596, 596, 0, 0, 0, 0, 0, 0, 0, 0,
             0, 724, 722, 0, 739, 0, 622, 802, 0, 0, 0, 0, 0, 0, 0, 793,
             681, 0, 0, 679, 0, 0, 0, 0, 0, 699, 0, 0, 0, 0, 0, 0,
             580, 608, 573, 608, 584, 0, 607, 602, 267, 0, 570, 267, 891, 602, 613,
             608, 0, 380, 556, 342, 601, 547, 798, 0, 547 >> ] ]

\* Variant: a character without a usable table entry pulls the pen back.
CharWidth_NegativeFallback(metrics, code) ==
  LET idx == code - metrics.firstChar
  IN  IF idx >= 0 /\ idx < Len(metrics.widths) /\ metrics.widths[idx + 1] # 0
      THEN metrics.widths[idx + 1]
      ELSE 0 - metrics.defaultWidth

\* The advance of one character: the loop body of calculateTextWidth.
CharWidth(metrics, code) ==
  LET idx == code - metrics.firstChar
  IN  IF idx >= 0 /\ idx < Len(metrics.widths) /\ metrics.widths[idx + 1] # 0
      THEN metrics.widths[idx + 1]
      ELSE metrics.defaultWidth

RECURSIVE TotalWidth(_, _)
TotalWidth(metrics, text) ==
  IF text = << >> THEN 0
  ELSE CharWidth(metrics, Head(text)) + TotalWidth(metrics, Tail(text))

calculateTextWidth(text, fontName, fontSize) ==
  IF fontName \notin DOMAIN FONT_METRICS
  THEN Len(text) * 500 * fontSize
  ELSE TotalWidth(FONT_METRICS[fontName], text) * fontSize

\* text.split(' ') on character codes.
RECURSIVE SplitOnSpace(_, _)
SplitOnSpace(text, cur) ==
  IF text = << >> THEN << cur >>
  ELSE IF Head(text) = 32 THEN << cur >> \o SplitOnSpace(Tail(text), << >>)
  ELSE SplitOnSpace(Tail(text), Append(cur, Head(text)))

\* Variant: a line is closed as soon as the candidate reaches maxWidthPt.
RECURSIVE MetricsWrapLoop_BreakAtLimit(_, _, _, _, _)
MetricsWrapLoop_BreakAtLimit(words, currentLine, fontName, fontSize, maxWidthPt) ==
  IF words = << >>
  THEN IF currentLine # << >> THEN << currentLine >> ELSE << >>
  ELSE LET word == Head(words)
           candidate == IF currentLine # << >>
                        THEN currentLine \o << 32 >> \o word ELSE word
           width == calculateTextWidth(candidate, fontName, fontSize)
       IN  IF width >= maxWidthPt /\ currentLine # << >>
           THEN << currentLine >> \o
                MetricsWrapLoop_BreakAtLimit(Tail(words), word, fontName, fontSize, maxWidthPt)
           ELSE MetricsWrapLoop_BreakAtLimit(Tail(words), candidate, fontName, fontSize, maxWidthPt)

\* The loop of the module's wrapText over the words.
RECURSIVE MetricsWrapLoop(_, _, _, _, _)
MetricsWrapLoop(words, currentLine, fontName, fontSize, maxWidthPt) ==
  IF words = << >>
  THEN IF currentLine # << >> THEN << currentLine >> ELSE << >>
  ELSE LET word == Head(words)
           candidate == IF currentLine # << >>
                        THEN currentLine \o << 32 >> \o word ELSE word
           width == calculateTextWidth(candidate, fontName, fontSize)
       IN  IF width > maxWidthPt /\ currentLine # << >>
           THEN << currentLine >> \o
                MetricsWrapLoop(Tail(words), word, fontName, fontSize, maxWidthPt)
           ELSE MetricsWrapLoop(Tail(words), candidate, fontName, fontSize, maxWidthPt)

\* Variant: only the words that fit on the first line are returned.
wrapTextPt_FirstLine(text, fontName, fontSize, maxWidthPt) ==
  LET lines == MetricsWrapLoop(SplitOnSpace(text, << >>), << >>, fontName,
                               fontSize, maxWidthPt)
  IN  IF lines = << >> THEN << >> ELSE << lines[1] >>

\* wrapText(text, fontName, fontSize, maxWidthPt) of the font-metrics module.
wrapTextPt(text, fontName, fontSize, maxWidthPt) ==
  MetricsWrapLoop(SplitOnSpace(text, << >>), << >>, fontName, fontSize, maxWidthPt)

\* ------------------------------------------------------------------------
\* Scoring
\* ------------------------------------------------------------------------
\* Variant: the growth_ready bracket ends below 75.
getTier_BelowLimit(score) ==
  IF score <= 30 THEN "at_risk"
  ELSE IF score <= 55 THEN "needs_improvement"
  ELSE IF score < 75 THEN "growth_ready"
  ELSE "market_leader"

getTier(score) ==
  IF score <= 30 THEN "at_risk"
  ELSE IF score <= 55 THEN "needs_improvement"
  ELSE IF score <= 75 THEN "growth_ready"
  ELSE "market_leader"

\* ------------------------------------------------------------------------
\* Calls of the pure functions
\* ------------------------------------------------------------------------
MaxTextLen == 3
MaxWrapLen == 5

\* Character codes: line feed (below every firstChar), space, 'W', 'a', 'd',
\* 'y', '}' (the lastChar of four fonts) and '~' (above every lastChar).
TextCodes == { 10, 32, 97, 100, 121, 125, 126 }
WrapCodes == { 10, 32, 87, 97 }
WrapLexemes == { " ", "ab", "c" }
FontNames == MetricFonts \cup { "Helvetica" }
FontSizes == { 0, 1, 12 }

WidthCalls ==
  { [ fn |-> "calculateTextWidth", text |-> t, fontName |-> f, fontSize |-> z ] :
      t \in SeqsUpTo(TextCodes, MaxTextLen), f \in FontNames, z \in FontSizes }
WrapCalls ==
  { [ fn |-> "wrapText", text |-> t, fontName |-> f, fontSize |-> 1, maxWidthPt |-> w ] :
      t \in SeqsUpTo(WrapCodes, MaxWrapLen), f \in { "Roboto-Bold", "Helvetica" },
      w \in { 0, 1321, 2000 } }
PdfWrapCalls ==
  { [ fn |-> "PdfService.wrapText", text |-> t, fontKey |-> "robotoRegular",
      fontSize |-> 12, maxWidth |-> w ] :
      t \in SeqsUpTo(WrapLexemes, MaxWrapLen), w \in { 0, 18000, 30000 } }

\* The ten quiz questions, by id.
questions == << "Q1", "Q2", "Q3", "Q4", "Q5", "Q6", "Q7", "Q8", "Q9", "Q10" >>
AnswerKeys == { "a", "b", "c" }
POINTS == [ a |-> 0, b |-> 5, c |-> 10 ]

\* Variant: every pillar is scored from two consecutive questions.
calculatePillarScores_Consecutive(answers) ==
  LET p(index) == POINTS[answers[index + 1]]
  IN  [ visibility |-> p(0) + p(1), conversion |-> p(2) + p(3),
        reputation |-> p(4) + p(5), marketing |-> p(6) + p(7),
        tracking |-> p(8) + p(9) ]

\* p(index) reads the answers from index 0.
calculatePillarScores(answers) ==
  LET p(index) == POINTS[answers[index + 1]]
  IN  [ visibility |-> p(0) + p(1), conversion |-> p(2) + p(3),
        reputation |-> p(4) + p(8), marketing |-> p(5) + p(9),
        tracking |-> p(6) + p(7) ]

\* answers.reduce((sum, key) => sum + POINTS[key], 0)
RECURSIVE ReducePoints(_, _)
ReducePoints(sum, answers) ==
  IF answers = << >> THEN sum
  ELSE ReducePoints(sum + POINTS[Head(answers)], Tail(answers))

calculateScore(answers) ==
  IF Len(answers) # Len(questions) THEN [ threw |-> TRUE ]
  ELSE LET totalScore == ReducePoints(0, answers)
       IN  [ threw |-> FALSE, totalScore |-> totalScore, tier |-> getTier(totalScore),
             pillarScores |-> calculatePillarScores(answers), answers |-> answers ]

TierCalls == { [ fn |-> "getTier", score |-> n ] : n \in 0..100 }
\* Answer lists: all lists of one answer per question, and lists of other
\* lengths.
FullAnswerLists == [ 1..Len(questions) -> AnswerKeys ]
OtherAnswerLists ==
  { [ i \in 1..n |-> "c" ] : n \in { 0, 1, Len(questions) - 1, Len(questions) + 1 } }
OpacityCalls == { [ fn |-> "getScoreOpacity", score |-> n ] : n \in 0..20 }
ScoreSamples == { 0, 10, 11, 15, 16, 20 }
DotCalls ==
  { [ fn |-> "drawPage3Dots", pillarScores |-> ps ] :
      ps \in [ PillarKeySet -> ScoreSamples ] }

PillarScoreValues == { 0, 5, 10, 15, 20 }
LowestCalls ==
  { [ fn |-> "getLowestPillar", pillarScores |-> ps ] :
      ps \in [ PillarKeySet -> PillarScoreValues ] }

LibCalls ==
  WidthCalls \cup WrapCalls \cup PdfWrapCalls \cup TierCalls \cup OpacityCalls
    \cup DotCalls \cup LowestCalls

Return(value) == [ done |-> TRUE, value |-> value ]

LibInit ==
  /\ \/ call \in LibCalls
     \/ \E a \in FullAnswerLists : call = [ fn |-> "calculateScore", answers |-> a ]
     \/ \E a \in OtherAnswerLists : call = [ fn |-> "calculateScore", answers |-> a ]
  /\ ret = NoReturn
  /\ pc = "idle"
  /\ template = << >>
  /\ data = FullData
  /\ replacements = [ k \in PlaceholderKeys |-> Undefined ]
  /\ objects = << >>
  /\ next = 1
  /\ positions = << >>
  /\ draws = << >>
  /\ annots = << >>
  /\ result = "none"
  /\ SvcIdle

CalculateTextWidth ==
  /\ call.fn = "calculateTextWidth"
  /\ ~ret.done
  /\ ret' = Return(calculateTextWidth(call.text, call.fontName, call.fontSize))
  /\ UNCHANGED call
  /\ UNCHANGED << pdfVars, svcVars >>

WrapTextPt ==
  /\ call.fn = "wrapText"
  /\ ~ret.done
  /\ ret' = Return(wrapTextPt(call.text, call.fontName, call.fontSize, call.maxWidthPt))
  /\ UNCHANGED call
  /\ UNCHANGED << pdfVars, svcVars >>

WrapText ==
  /\ call.fn = "PdfService.wrapText"
  /\ ~ret.done
  /\ ret' = Return(wrapText(call.text, call.fontKey, call.fontSize, call.maxWidth))
  /\ UNCHANGED call
  /\ UNCHANGED << pdfVars, svcVars >>

GetTier ==
  /\ call.fn = "getTier"
  /\ ~ret.done
  /\ ret' = Return(getTier(call.score))
  /\ UNCHANGED call
  /\ UNCHANGED << pdfVars, svcVars >>

GetScoreOpacity ==
  /\ call.fn = "getScoreOpacity"
  /\ ~ret.done
  /\ ret' = Return(getScoreOpacity(call.score))
  /\ UNCHANGED call
  /\ UNCHANGED << pdfVars, svcVars >>

DrawPage3Dots ==
  /\ call.fn = "drawPage3Dots"
  /\ ~ret.done
  /\ ret' = Return(drawPage3Dots(call.pillarScores))
  /\ UNCHANGED call
  /\ UNCHANGED << pdfVars, svcVars >>

CalculateScore ==
  /\ call.fn = "calculateScore"
  /\ ~ret.done
  /\ ret' = Return(calculateScore(call.answers))
  /\ UNCHANGED call
  /\ UNCHANGED << pdfVars, svcVars >>

\* The lowest pillar and the replacement table built from it.
GetLowestPillar ==
  /\ call.fn = "getLowestPillar"
  /\ ~ret.done
  /\ ret' = Return([ lowestPillar |-> getLowestPillar(call.pillarScores),
                     replacements |->
                       Replacements([ FullData EXCEPT !.pillarScores = call.pillarScores ]) ])
  /\ UNCHANGED call
  /\ UNCHANGED << pdfVars, svcVars >>

LibNext ==
  \/ CalculateTextWidth
  \/ WrapTextPt
  \/ WrapText
  \/ GetTier
  \/ GetScoreOpacity
  \/ DrawPage3Dots
  \/ CalculateScore
  \/ GetLowestPillar

LibSpec == LibInit /\ [][LibNext]_vars

\* ------------------------------------------------------------------------
\* Word wrapping
\* ------------------------------------------------------------------------
\* The non-empty words of a text delimited by the elements of ws.
RECURSIVE WordsFrom(_, _, _)
WordsFrom(text, cur, ws) ==
  IF text = << >> THEN (IF cur = << >> THEN << >> ELSE << cur >>)
  ELSE IF Head(text) \in ws
       THEN (IF cur = << >> THEN << >> ELSE << cur >>) \o WordsFrom(Tail(text), << >>, ws)
       ELSE WordsFrom(Tail(text), Append(cur, Head(text)), ws)
WordsOf(text, ws) == WordsFrom(text, << >>, ws)

\* The lines joined by the single separator sp.
RECURSIVE JoinLines(_, _)
JoinLines(lines, sp) ==
  IF lines = << >> THEN << >>
  ELSE IF Len(lines) = 1 THEN lines[1]
  ELSE lines[1] \o << sp >> \o JoinLines(Tail(lines), sp)

Wrapped == call.fn = "wrapText" /\ ret.done
PdfWrapped == call.fn = "PdfService.wrapText" /\ ret.done

\* C15: the lines wrapText returns, joined by single spaces, have the same
\* sequence of whitespace-delimited words as the text: no word is dropped,
\* duplicated, split or reordered (both wrapText functions).
C15_WrapKeepsWords ==
  /\ Wrapped => WordsOf(JoinLines(ret.value, 32), { 32, 10 }) = WordsOf(call.text, { 32, 10 })
  /\ PdfWrapped => WordsOf(JoinLines(ret.value, " "), { " " }) = WordsOf(call.text, { " " })

\* A text of three words wrapped into more than one line.
C15_Witness ==
  /\ Wrapped
  /\ Len(ret.value) >= 2
  /\ Len(WordsOf(call.text, { 32, 10 })) = 3

HasSpace(line) == \E i \in 1..Len(line) : line[i] = 32
FirstWord(line) == SplitOnSpace(line, << >>)[1]
LineWidth(line) == calculateTextWidth(line, call.fontName, call.fontSize)

\* C16: wrapText is greedy: a line is closed only when the next word would
\* make it wider than maxWidth; every line is at most maxWidth wide or is a
\* single unsplit word, and no line is empty.
C16_WrapIsGreedy ==
  Wrapped =>
    /\ \A i \in 1..Len(ret.value) :
         /\ ret.value[i] # << >>
         /\ LineWidth(ret.value[i]) <= call.maxWidthPt \/ ~HasSpace(ret.value[i])
    /\ \A i \in 1..(Len(ret.value) - 1) :
         LineWidth(ret.value[i] \o << 32 >> \o FirstWord(ret.value[i + 1]))
           > call.maxWidthPt

\* Two words that fill a line exactly, and a third on the next line.
C16_Witness ==
  /\ Wrapped
  /\ Len(ret.value) = 2
  /\ HasSpace(ret.value[1])
  /\ LineWidth(ret.value[1]) = call.maxWidthPt

\* ------------------------------------------------------------------------
\* Text measurement
\* ------------------------------------------------------------------------
Measured == call.fn = "calculateTextWidth" /\ ret.done

InRange(metrics, code) == code \in metrics.firstChar..metrics.lastChar
HasEntry(metrics, code) == (code - metrics.firstChar + 1) \in DOMAIN metrics.widths

\* The advance the table of the font gives a character: its entry, or the
\* default width outside firstChar..lastChar and for an entry of 0.
TabulatedAdvance(metrics, code) ==
  IF ~InRange(metrics, code) THEN metrics.defaultWidth
  ELSE IF metrics.widths[code - metrics.firstChar + 1] = 0 THEN metrics.defaultWidth
  ELSE metrics.widths[code - metrics.firstChar + 1]

RECURSIVE SumAdvances(_, _)
SumAdvances(metrics, text) ==
  IF text = << >> THEN 0
  ELSE TabulatedAdvance(metrics, Head(text)) + SumAdvances(metrics, Tail(text))

\* C17: calculateTextWidth is size/1000 times the sum of the tabulated
\* advances of the characters, every character of firstChar..lastChar
\* having a table entry and the default width being used outside that range
\* and for an entry of 0; for an unknown font it is 0.5 * size * length.
C17_WidthIsSumOfAdvances ==
  Measured =>
    IF call.fontName \in DOMAIN FONT_METRICS
    THEN LET metrics == FONT_METRICS[call.fontName]
         IN  /\ \A i \in 1..Len(call.text) :
                  InRange(metrics, call.text[i]) => HasEntry(metrics, call.text[i])
             /\ ret.value = SumAdvances(metrics, call.text) * call.fontSize
    ELSE ret.value = Len(call.text) * 500 * call.fontSize

\* C18: for every font of FONT_METRICS the widths sequence has exactly
\* lastChar - firstChar + 1 entries, so that every character code of
\* firstChar..lastChar has its own entry.
C18_WidthsCoverRange ==
  /\ \A f \in DOMAIN FONT_METRICS :
       Len(FONT_METRICS[f].widths)
         = FONT_METRICS[f].lastChar - FONT_METRICS[f].firstChar + 1
  /\ (Measured /\ call.fontName \in DOMAIN FONT_METRICS) =>
       \A i \in 1..Len(call.text) :
         InRange(FONT_METRICS[call.fontName], call.text[i])
           => HasEntry(FONT_METRICS[call.fontName], call.text[i])

\* C19: appending a non-empty string never decreases the width: the width
\* of a text is at least the width of each of its proper prefixes, for
\* known and unknown fonts and every size >= 0.
C19_WidthMonotone ==
  Measured =>
    \A n \in 0..(Len(call.text) - 1) :
      ret.value >= calculateTextWidth(SubSeq(call.text, 1, n), call.fontName, call.fontSize)

\* A known font, a positive size and a suffix without usable table entry
\* that makes the text strictly wider.
C19_Witness ==
  /\ Measured
  /\ call.fontName = "Roboto-Bold"
  /\ call.fontSize = 12
  /\ Len(call.text) = 2
  /\ call.text[2] = 126
  /\ ret.value > calculateTextWidth(SubSeq(call.text, 1, 1), call.fontName, call.fontSize)

\* ------------------------------------------------------------------------
\* Tiers
\* ------------------------------------------------------------------------
InBracket(t, score) == tiers[t].scoreMin <= score /\ score <= tiers[t].scoreMax

\* C20: for every total score of 0..100 getTier returns the one tier whose
\* [scoreMin, scoreMax] bracket contains the score; 75 is growth_ready and
\* 76 is market_leader.
C20_TierOfBracket ==
  (call.fn = "getTier" /\ ret.done) =>
    /\ ret.value \in TierKeys
    /\ InBracket(ret.value, call.score)
    /\ \A t \in TierKeys : InBracket(t, call.score) => t = ret.value
    /\ call.score = 75 => ret.value = "growth_ready"
    /\ call.score = 76 => ret.value = "market_leader"

C20_Witness ==
  /\ call.fn = "getTier"
  /\ ret.done
  /\ call.score = 75
  /\ ret.value = "growth_ready"

\* ------------------------------------------------------------------------
\* Pillar dots
\* ------------------------------------------------------------------------
\* The opacity (in hundredths) the three score ranges stand for.
OpacityOfRange(score, opacity) ==
  /\ score >= 16 => opacity = 100
  /\ score \in 11..15 => opacity = 75
  /\ score <= 10 => opacity = 50

\* The circles drawn at the height of a pillar's row.
DotsOf(circles, pillar) ==
  { i \in 1..Len(circles) : circles[i].kind = "circle" /\ circles[i].y = DotY[pillar] }

\* C21: getScoreOpacity maps a pillar score of 0..20 to 1.0 when it is
\* >= 16, 0.75 when it is 11..15 and 0.5 when it is <= 10, and drawPage3Dots
\* draws exactly one dot per pillar with the opacity of that pillar's score.
C21_DotOpacityOfScore ==
  /\ (call.fn = "getScoreOpacity" /\ ret.done) =>
       /\ ret.value \in { 100, 75, 50 }
       /\ OpacityOfRange(call.score, ret.value)
  /\ (call.fn = "drawPage3Dots" /\ ret.done) =>
       /\ Len(ret.value) = Cardinality(PillarKeySet)
       /\ \A p \in PillarKeySet :
            /\ Cardinality(DotsOf(ret.value, p)) = 1
            /\ \A i \in DotsOf(ret.value, p) :
                 OpacityOfRange(call.pillarScores[p], ret.value[i].opacity)

\* Dots of all three opacities, two of them at the limits 16 and 15.
C21_Witness ==
  /\ call.fn = "drawPage3Dots"
  /\ ret.done
  /\ call.pillarScores.visibility = 16
  /\ call.pillarScores.conversion = 15
  /\ call.pillarScores.tracking = 10
  /\ ret.value[1].opacity = 100
  /\ ret.value[2].opacity = 75
  /\ ret.value[5].opacity = 50

\* ------------------------------------------------------------------------
\* Template and font caches of a PdfService instance
\* ------------------------------------------------------------------------
NumCalls == 3

GenCalls == 1..NumCalls
TemplateFile == "dominance-playbook.pdf"
FontFiles == { "Roboto-Regular.ttf", "Roboto-Bold.ttf", "Roboto-Medium.ttf",
               "Archivo-Bold.ttf", "Archivo-ExtraBold.ttf" }

\* No generatePdfBuffer call runs and no pure function is called.
PdfIdle ==
  /\ pc = "idle"
  /\ template = << >>
  /\ data = FullData
  /\ replacements = [ k \in PlaceholderKeys |-> Undefined ]
  /\ objects = << >>
  /\ next = 1
  /\ positions = << >>
  /\ draws = << >>
  /\ annots = << >>
  /\ result = "none"
  /\ call = NoCall
  /\ ret = NoReturn

\* A cache is << >> (null) or << c >>, the buffers read by call c.  A call
\* holds the buffers getTemplate and getFontBuffers returned to it.
CacheInit ==
  /\ PdfIdle
  /\ templateCache = << >>
  /\ fontCache = << >>
  /\ diskReads = [ f \in { TemplateFile } \cup FontFiles |-> 0 ]
  /\ gens = [ c \in GenCalls |->
                [ pc |-> "getTemplate", templateBytes |-> << >>, fontBuffers |-> << >> ] ]
  /\ reports = { }
  /\ reqs = << >>
  /\ tasks = << >>
  /\ leads = { }
  /\ captures = << >>

\* getTemplate up to its await: the cache test and the readFile call.
GetTemplate(c) ==
  /\ gens[c].pc = "getTemplate"
  /\ IF templateCache = << >>
     THEN /\ diskReads' = [ diskReads EXCEPT ![TemplateFile] = @ + 1 ]
          /\ gens' = [ gens EXCEPT ![c].pc = "readTemplate" ]
     ELSE /\ gens' = [ gens EXCEPT ![c].pc = "getFontBuffers",
                                   ![c].templateBytes = templateCache ]
          /\ UNCHANGED diskReads
  /\ UNCHANGED << templateCache, fontCache >>
  /\ UNCHANGED << pdfVars, libVars, reportVars, leadVars >>

\* readFile resolved: the cache is assigned and returned.
TemplateRead(c) ==
  /\ gens[c].pc = "readTemplate"
  /\ templateCache' = << c >>
  /\ gens' = [ gens EXCEPT ![c].pc = "getFontBuffers", ![c].templateBytes = << c >> ]
  /\ UNCHANGED << fontCache, diskReads >>
  /\ UNCHANGED << pdfVars, libVars, reportVars, leadVars >>

\* getFontBuffers up to its await: the cache test and the five readFile
\* calls of Promise.all.
GetFontBuffers(c) ==
  /\ gens[c].pc = "getFontBuffers"
  /\ IF fontCache = << >>
     THEN /\ diskReads' = [ f \in DOMAIN diskReads |->
                              IF f \in FontFiles THEN diskReads[f] + 1 ELSE diskReads[f] ]
          /\ gens' = [ gens EXCEPT ![c].pc = "readFonts" ]
     ELSE /\ gens' = [ gens EXCEPT ![c].pc = "generate",
                                   ![c].fontBuffers = fontCache ]
          /\ UNCHANGED diskReads
  /\ UNCHANGED << templateCache, fontCache >>
  /\ UNCHANGED << pdfVars, libVars, reportVars, leadVars >>

FontsRead(c) ==
  /\ gens[c].pc = "readFonts"
  /\ fontCache' = << c >>
  /\ gens' = [ gens EXCEPT ![c].pc = "generate", ![c].fontBuffers = << c >> ]
  /\ UNCHANGED << templateCache, diskReads >>
  /\ UNCHANGED << pdfVars, libVars, reportVars, leadVars >>

CacheNext ==
  \E c \in GenCalls :
    \/ GetTemplate(c)
    \/ TemplateRead(c)
    \/ GetFontBuffers(c)
    \/ FontsRead(c)

CacheSpec == CacheInit /\ [][CacheNext]_vars

\* C22: across every interleaving of concurrent generatePdfBuffer calls the
\* template file and each font file are read from disk at most once, and
\* every call works on the same cached buffers (a cache is never replaced).
C22_FilesReadOnce ==
  /\ \A f \in DOMAIN diskReads : diskReads[f] <= 1
  /\ \A c, d \in DOMAIN gens :
       /\ (gens[c].templateBytes # << >> /\ gens[d].templateBytes # << >>)
            => gens[c].templateBytes = gens[d].templateBytes
       /\ (gens[c].fontBuffers # << >> /\ gens[d].fontBuffers # << >>)
            => gens[c].fontBuffers = gens[d].fontBuffers

\* ------------------------------------------------------------------------
\* Access tokens (EncryptionService)
\* ------------------------------------------------------------------------
\* A token is a sequence of characters, << >> being a missing one; the
\* digest of a value is a constant prefix followed by the value itself.
signToken(value) == << "hmac", value >>

\* The comparison of verifyToken: the lengths, then every position.
verifyToken(value, token) ==
  LET expected == signToken(value)
  IN  IF Len(expected) # Len(token) THEN FALSE
      ELSE Cardinality({ i \in 1..Len(expected) : expected[i] # token[i] }) = 0

\* Variant: only a token of the wrong length is rejected.
verifyAccess_LengthOnly(reportId, token) ==
  token # << >> /\ Len(signToken(reportId)) = Len(token)

\* verifyAccess returns (TRUE) or throws Forbidden (FALSE).
verifyAccess(reportId, token) ==
  token # << >> /\ verifyToken(reportId, token)

\* ------------------------------------------------------------------------
\* ReportService: generate, download, emailReport and their background work
\* ------------------------------------------------------------------------
NumReqs == 3

ReqIds == 1..NumReqs
Sessions == { "s1" }
Variants == { "await", "background" }

NoResult == [ status |-> "none", reportId |-> 0, token |-> << >> ]
NewReq(variant) ==
  [ variant |-> variant, op |-> "none", pc |-> "new", sessionId |-> "", reportId |-> 0,
    token |-> << >>, result |-> NoResult ]
NoTask ==
  [ kind |-> "none", pc |-> "none", reportId |-> 0, sessionId |-> "", sent |-> FALSE ]

\* Report documents: the fields the service reads or writes.
ReportDoc(reportId, sessionId) ==
  [ id |-> reportId, sessionId |-> sessionId, emailStatus |-> "skipped",
    downloadCount |-> 0 ]

ReportInit ==
  /\ PdfIdle
  /\ templateCache = << >>
  /\ fontCache = << >>
  /\ diskReads = << >>
  /\ gens = << >>
  /\ reports = { }
  /\ \E v \in Variants : reqs = [ r \in ReqIds |-> NewReq(v) ]
  /\ tasks = [ r \in ReqIds |-> NoTask ]
  /\ leads = { }
  /\ captures = << >>

ReportFrame == UNCHANGED << pdfVars, libVars, cacheVars, leadVars >>

\* The (reportId, token) pairs generate has returned so far, and the tokens
\* a client may send with a returned reportId.
Returned ==
  { << reqs[r].result.reportId, reqs[r].result.token >> :
      r \in { q \in ReqIds : reqs[q].op = "generate" /\ reqs[q].result.status = "ok" } }
TokensFor(pair) ==
  { pair[2], << >>, << "hmac" >>, signToken(0), << "hmac", pair[1], pair[1] >> }

\* A client calls generate(sessionId).
CallGenerate(r) ==
  /\ reqs[r].pc = "new"
  /\ \E sid \in Sessions :
       reqs' = [ reqs EXCEPT ![r].op = "generate", ![r].pc = "findExisting",
                             ![r].sessionId = sid ]
  /\ UNCHANGED << reports, tasks >>
  /\ ReportFrame

\* A client calls download or emailReport with a returned reportId.
CallWithToken(r) ==
  /\ reqs[r].pc = "new"
  /\ \E op \in { "download", "emailReport" }, pair \in Returned :
       \E token \in TokensFor(pair) :
         reqs' = [ reqs EXCEPT ![r].op = op, ![r].pc = "verifyAccess",
                               ![r].reportId = pair[1], ![r].token = token ]
  /\ UNCHANGED << reports, tasks >>
  /\ ReportFrame

\* generate: findOne({ sessionId }) and the early return.
FindExisting(r) ==
  /\ reqs[r].pc = "findExisting"
  /\ LET found == { d \in reports : d.sessionId = reqs[r].sessionId }
     IN  IF found # { }
         THEN \E existing \in found :
                reqs' = [ reqs EXCEPT ![r].pc = "done",
                            ![r].result = [ status |-> "ok", reportId |-> existing.id,
                                            token |-> signToken(existing.id) ] ]
         ELSE reqs' = [ reqs EXCEPT ![r].pc = "generatePdf" ]
  /\ UNCHANGED << reports, tasks >>
  /\ ReportFrame

\* generate after the PDF is built: a fresh reportId, the create call and
\* the return.  The awaiting variant returns once the document is stored,
\* the other one leaves the write to a background promise.
CreateReport(r) ==
  /\ reqs[r].pc = "generatePdf"
  /\ reqs' = [ reqs EXCEPT ![r].pc = "done",
                 ![r].result = [ status |-> "ok", reportId |-> r, token |-> signToken(r) ] ]
  /\ IF reqs[r].variant = "await"
     THEN /\ reports' = reports \cup { ReportDoc(r, reqs[r].sessionId) }
          /\ UNCHANGED tasks
     ELSE /\ tasks' = [ tasks EXCEPT ![r] =
                          [ NoTask EXCEPT !.kind = "create", !.pc = "writing",
                                          !.reportId = r, !.sessionId = reqs[r].sessionId ] ]
          /\ UNCHANGED reports
  /\ ReportFrame

\* The background create resolves: the document is stored.
ReportWritten(r) ==
  /\ tasks[r].kind = "create"
  /\ tasks[r].pc = "writing"
  /\ reports' = reports \cup { ReportDoc(tasks[r].reportId, tasks[r].sessionId) }
  /\ tasks' = [ tasks EXCEPT ![r].pc = "ended" ]
  /\ UNCHANGED reqs
  /\ ReportFrame

\* The background create rejects: the catch callback logs the error.
ReportWriteFails(r) ==
  /\ tasks[r].kind = "create"
  /\ tasks[r].pc = "writing"
  /\ tasks' = [ tasks EXCEPT ![r].pc = "logged" ]
  /\ UNCHANGED << reports, reqs >>
  /\ ReportFrame

\* findById and findByIdAndUpdate on the reports collection.
FindById(reportId) == { d \in reports : d.id = reportId }
UpdateStatus(reportId, status) ==
  { IF d.id = reportId THEN [ d EXCEPT !.emailStatus = status ] ELSE d : d \in reports }

\* download and emailReport open with verifyAccess.
VerifyAccess(r) ==
  /\ reqs[r].pc = "verifyAccess"
  /\ IF verifyAccess(reqs[r].reportId, reqs[r].token)
     THEN reqs' = [ reqs EXCEPT ![r].pc = "findById" ]
     ELSE reqs' = [ reqs EXCEPT ![r].pc = "done", ![r].result.status = "Forbidden" ]
  /\ UNCHANGED << reports, tasks >>
  /\ ReportFrame

\* What follows a successful lookup: download increments the counter,
\* emailReport reads the lead and schedules the background send.
AfterFound(r) == IF reqs[r].op = "download" THEN "increment" ELSE "schedule"

\* The first findById; a miss starts the 500 ms timer.
FindReport(r) ==
  /\ reqs[r].pc = "findById"
  /\ reqs' = [ reqs EXCEPT ![r].pc =
                 IF FindById(reqs[r].reportId) # { } THEN AfterFound(r) ELSE "retry" ]
  /\ UNCHANGED << reports, tasks >>
  /\ ReportFrame

\* The second findById when the timer fires; a miss throws NotFound.
RetryFindReport(r) ==
  /\ reqs[r].pc = "retry"
  /\ IF FindById(reqs[r].reportId) # { }
     THEN reqs' = [ reqs EXCEPT ![r].pc = AfterFound(r) ]
     ELSE reqs' = [ reqs EXCEPT ![r].pc = "done", ![r].result.status = "NotFound" ]
  /\ UNCHANGED << reports, tasks >>
  /\ ReportFrame

\* download: $inc downloadCount and the return of the PDF.
IncrementDownloadCount(r) ==
  /\ reqs[r].pc = "increment"
  /\ reports' = { IF d.id = reqs[r].reportId
                  THEN [ d EXCEPT !.downloadCount = d.downloadCount + 1 ] ELSE d :
                  d \in reports }
  /\ reqs' = [ reqs EXCEPT ![r].pc = "done", ![r].result.status = "pdf" ]
  /\ UNCHANGED tasks
  /\ ReportFrame

\* emailReport: sendEmailInBackground runs up to its first await (the two
\* decrypt calls, which may throw into its catch block) and the request
\* returns { sent: true } without awaiting it.  The lead of a stored report
\* exists, since generate found it.
ScheduleEmail(r) ==
  /\ reqs[r].pc = "schedule"
  /\ \E decrypted \in BOOLEAN :
       tasks' = [ tasks EXCEPT ![r] =
                    [ NoTask EXCEPT !.kind = "email", !.reportId = reqs[r].reportId,
                                    !.pc = IF decrypted THEN "markPending" ELSE "catch" ] ]
  /\ reqs' = [ reqs EXCEPT ![r].pc = "done", ![r].result.status = "sent:true" ]
  /\ UNCHANGED reports
  /\ ReportFrame

\* sendEmailInBackground: emailStatus 'pending' is stored.
EmailMarkPending(r) ==
  /\ tasks[r].kind = "email"
  /\ tasks[r].pc = "markPending"
  /\ reports' = UpdateStatus(tasks[r].reportId, "pending")
  /\ tasks' = [ tasks EXCEPT ![r].pc = "sending" ]
  /\ UNCHANGED reqs
  /\ ReportFrame

\* sendReportEmail settles: it returns true or false, or it throws.
EmailSend(r) ==
  /\ tasks[r].kind = "email"
  /\ tasks[r].pc = "sending"
  /\ \E outcome \in { "true", "false", "throws" } :
       tasks' = [ tasks EXCEPT ![r].sent = (outcome = "true"),
                               ![r].pc = IF outcome = "throws" THEN "catch" ELSE "markResult" ]
  /\ UNCHANGED << reports, reqs >>
  /\ ReportFrame

\* Variant: only a successful send is recorded.
EmailResultStatus_SentOnly(sent, current) == IF sent THEN "sent" ELSE current

\* The status stored after sendReportEmail has returned.
EmailResultStatus(sent, current) == IF sent THEN "sent" ELSE "failed"

EmailMarkResult(r) ==
  /\ tasks[r].kind = "email"
  /\ tasks[r].pc = "markResult"
  /\ reports' = { IF d.id = tasks[r].reportId
                  THEN [ d EXCEPT !.emailStatus = EmailResultStatus(tasks[r].sent, d.emailStatus) ]
                  ELSE d : d \in reports }
  /\ tasks' = [ tasks EXCEPT ![r].pc = "ended" ]
  /\ UNCHANGED reqs
  /\ ReportFrame

\* The catch block: emailStatus 'failed' is stored.
EmailCatch(r) ==
  /\ tasks[r].kind = "email"
  /\ tasks[r].pc = "catch"
  /\ reports' = UpdateStatus(tasks[r].reportId, "failed")
  /\ tasks' = [ tasks EXCEPT ![r].pc = "ended" ]
  /\ UNCHANGED reqs
  /\ ReportFrame

ReportNext ==
  \E r \in ReqIds :
    \/ CallGenerate(r)
    \/ CallWithToken(r)
    \/ FindExisting(r)
    \/ CreateReport(r)
    \/ ReportWritten(r)
    \/ ReportWriteFails(r)
    \/ VerifyAccess(r)
    \/ FindReport(r)
    \/ RetryFindReport(r)
    \/ IncrementDownloadCount(r)
    \/ ScheduleEmail(r)
    \/ EmailMarkPending(r)
    \/ EmailSend(r)
    \/ EmailMarkResult(r)
    \/ EmailCatch(r)

ReportSpec == ReportInit /\ [][ReportNext]_vars

\* C23: after any interleaving of generate calls for one sessionId at most
\* one report of that session is stored, and the calls that have returned
\* all returned the same reportId.
C23_OneReportPerSession ==
  /\ \A d, e \in reports : d.sessionId = e.sessionId => d.id = e.id
  /\ \A q, r \in ReqIds :
       (/\ reqs[q].op = "generate" /\ reqs[q].result.status = "ok"
        /\ reqs[r].op = "generate" /\ reqs[r].result.status = "ok"
        /\ reqs[q].sessionId = reqs[r].sessionId)
       => reqs[q].result.reportId = reqs[r].result.reportId

\* Requests made with a token, and those that got past verifyAccess.
TokenReqs == { r \in ReqIds : reqs[r].op \in { "download", "emailReport" } }
Proceeded(r) ==
  \/ reqs[r].pc \in { "findById", "retry", "increment", "schedule" }
  \/ reqs[r].result.status \in { "pdf", "sent:true", "NotFound" }
  \/ tasks[r].kind = "email"
Downloads(reportId) ==
  { r \in TokenReqs : /\ reqs[r].op = "download" /\ reqs[r].reportId = reportId
                      /\ reqs[r].result.status = "pdf" }

\* C24: download and emailReport get past verifyAccess only with the token
\* signToken(reportId); with a missing token, one of another length or a
\* different one of the same length they end in Forbidden with no lookup, no
\* downloadCount increment and no email scheduled; and every pair generate
\* returns passes verifyAccess.
C24_OnlySignedTokenProceeds ==
  /\ \A r \in TokenReqs :
       /\ Proceeded(r) => reqs[r].token = signToken(reqs[r].reportId)
       /\ (reqs[r].token # signToken(reqs[r].reportId) /\ reqs[r].pc = "done")
            => (reqs[r].result.status = "Forbidden" /\ tasks[r].kind = "none")
  /\ \A d \in reports :
       /\ d.downloadCount = Cardinality(Downloads(d.id))
       /\ \A r \in Downloads(d.id) : reqs[r].token = signToken(d.id)
  /\ \A pair \in Returned : verifyAccess(pair[1], pair[2])

\* A token of the right length for another value was refused while the
\* returned token was let through to the download.
C24_Witness ==
  \E q, r \in TokenReqs :
    /\ reqs[q].result.status = "Forbidden"
    /\ reqs[q].token = signToken(0)
    /\ reqs[r].result.status = "pdf"
    /\ reqs[q].reportId = reqs[r].reportId

\* C27: a reportId generate has returned refers to a stored report when it
\* is used: a download made with the returned token finds the report at the
\* first lookup or at the retry and never ends in 'Report not found', and no
\* generate call has returned a reportId whose write was rejected.
C27_ReturnedReportIsStored ==
  /\ \A r \in TokenReqs :
       (/\ reqs[r].op = "download"
        /\ << reqs[r].reportId, reqs[r].token >> \in Returned
        /\ reqs[r].pc = "done")
       => reqs[r].result.status # "NotFound"
  /\ \A r \in ReqIds :
       (tasks[r].kind = "create" /\ tasks[r].pc = "logged")
       => reqs[r].result.status # "ok"

\* Email tasks of a report: all of them, and those that have ended.
EmailTasks(reportId) ==
  { r \in ReqIds : tasks[r].kind = "email" /\ tasks[r].reportId = reportId }
Outcome(r) == IF tasks[r].sent THEN "sent" ELSE "failed"

C28_ReturnsBeforeSendWitness ==
  \E r \in TokenReqs :
    /\ reqs[r].result.status = "sent:true"
    /\ tasks[r].pc = "sending"

\* ------------------------------------------------------------------------
\* LeadService.capture
\* ------------------------------------------------------------------------
\* An email is a sequence of lexemes: letters, blanks and whole HTML tags.
NumCaptures == 3

CaptureIds == 1..NumCaptures
RawEmails ==
  { << "a" >>, << "A" >>, << " ", "a" >>, << "<i>", "a", " " >>, << "b" >> }

IsTag(ch) == ch = "<i>"
StripTags(str) == SelectSeq(str, LAMBDA ch : ~IsTag(ch))

ToLowerCase(str) == [ i \in 1..Len(str) |-> IF str[i] = "A" THEN "a" ELSE str[i] ]

\* SanitizeService.sanitize: the tags are removed, then the blanks around.
sanitize(input) == Trim(StripTags(input))

\* EncryptionService.hashForDedup: the digest of the lower-cased, trimmed
\* value; the digest keeps distinct values apart.
hashForDedup(value) == << "sha256" >> \o Trim(ToLowerCase(value))

NoCapture == [ pc |-> "new", email |-> << >>, emailHash |-> << >>, leadId |-> 0 ]

LeadInit ==
  /\ PdfIdle
  /\ templateCache = << >>
  /\ fontCache = << >>
  /\ diskReads = << >>
  /\ gens = << >>
  /\ reports = { }
  /\ reqs = << >>
  /\ tasks = << >>
  /\ leads = { }
  /\ captures = [ c \in CaptureIds |-> NoCapture ]

LeadFrame == UNCHANGED << pdfVars, libVars, cacheVars, reportVars >>

\* capture up to its first await: the fields are sanitized, the email is
\* lower-cased and hashed, and findOne({ emailHash }) is sent.
CallCapture(c) ==
  /\ captures[c].pc = "new"
  /\ \E raw \in RawEmails :
       LET email == ToLowerCase(sanitize(raw))
       IN  captures' = [ captures EXCEPT ![c].pc = "findOne", ![c].email = email,
                                         ![c].emailHash = hashForDedup(email) ]
  /\ UNCHANGED leads
  /\ LeadFrame

\* findOne resolves: an existing lead is returned as it is.
FindLead(c) ==
  /\ captures[c].pc = "findOne"
  /\ LET found == { l \in leads : l.emailHash = captures[c].emailHash }
     IN  IF found # { }
         THEN \E existing \in found :
                captures' = [ captures EXCEPT ![c].pc = "done", ![c].leadId = existing.id ]
         ELSE captures' = [ captures EXCEPT ![c].pc = "create" ]
  /\ UNCHANGED leads
  /\ LeadFrame

\* A fresh leadId, the awaited create and the return.
CreateLead(c) ==
  /\ captures[c].pc = "create"
  /\ leads' = leads \cup { [ id |-> c, email |-> captures[c].email,
                             emailHash |-> captures[c].emailHash ] }
  /\ captures' = [ captures EXCEPT ![c].pc = "done", ![c].leadId = c ]
  /\ LeadFrame

LeadNext ==
  \E c \in CaptureIds :
    \/ CallCapture(c)
    \/ FindLead(c)
    \/ CreateLead(c)

LeadSpec == LeadInit /\ [][LeadNext]_vars

\* C25: after any interleaving of capture calls at most one lead is stored
\* per email hash, and the captures of one email (compared lower-cased and
\* trimmed) that have returned all returned the id of that lead.
C25_OneLeadPerEmail ==
  /\ \A k, l \in leads : k.emailHash = l.emailHash => k.id = l.id
  /\ \A c, d \in CaptureIds :
       (/\ captures[c].pc = "done" /\ captures[d].pc = "done"
        /\ captures[c].emailHash = captures[d].emailHash)
       => captures[c].leadId = captures[d].leadId

\* ------------------------------------------------------------------------
\* Scores and the lowest pillar
\* ------------------------------------------------------------------------
\* The points of question Qn, and the question pairs of the pillars.
PointsOf(answers, n) == CASE answers[n] = "a" -> 0 [] answers[n] = "b" -> 5 [] OTHER -> 10
PillarQuestions ==
  [ visibility |-> << 1, 2 >>, conversion |-> << 3, 4 >>, reputation |-> << 5, 9 >>,
    marketing |-> << 6, 10 >>, tracking |-> << 7, 8 >> ]
Scored == call.fn = "calculateScore" /\ ret.done

\* C26: for ten answers in a, b, c calculateScore gives five pillar scores,
\* each the points of its two questions (Q1+Q2, Q3+Q4, Q5+Q9, Q6+Q10,
\* Q7+Q8) and within 0..20, whose sum is totalScore, within 0..100; for any
\* other number of answers it throws.
C26_PillarScoresSumToTotal ==
  Scored =>
    IF Len(call.answers) = 10
    THEN LET scores == ret.value.pillarScores
         IN  /\ ~ret.value.threw
             /\ DOMAIN scores = PillarKeySet
             /\ \A k \in PillarKeySet :
                  /\ scores[k] = PointsOf(call.answers, PillarQuestions[k][1])
                                   + PointsOf(call.answers, PillarQuestions[k][2])
                  /\ scores[k] \in 0..20
             /\ ret.value.totalScore
                  = scores.visibility + scores.conversion + scores.reputation
                      + scores.marketing + scores.tracking
             /\ ret.value.totalScore \in 0..100
    ELSE ret.value.threw

\* Ten answers were scored in which Q6 differs from Q9 and Q5 from Q10.
C26_Witness ==
  /\ Scored
  /\ Len(call.answers) = 10
  /\ call.answers[6] # call.answers[9]
  /\ call.answers[5] # call.answers[10]
  /\ ret.value.totalScore = 55

\* A list of nine answers was refused.
C26_ThrowsWitness == Scored /\ Len(call.answers) = 9 /\ ret.value.threw

IndexOfPillar(key) == CHOOSE i \in 1..Len(PillarOrder) : PillarOrder[i] = key
LowestFound == call.fn = "getLowestPillar" /\ ret.done

\* C29: getLowestPillar returns a pillar of minimal score, the first of them
\* in the order visibility, conversion, reputation, marketing, tracking;
\* Lowest_Pillar_Name and Primary_Focus_Area are replaced by that pillar's
\* name and Lowest_Pillar_Impact_Statement by its impact statement.
C29_LowestPillarFirstMinimum ==
  LowestFound =>
    LET scores == call.pillarScores
        lowest == ret.value.lowestPillar
    IN  /\ lowest \in PillarKeySet
        /\ \A k \in PillarKeySet : scores[lowest] <= scores[k]
        /\ \A k \in PillarKeySet :
             scores[k] = scores[lowest] => IndexOfPillar(lowest) <= IndexOfPillar(k)
        /\ ret.value.replacements["Lowest_Pillar_Name"] = pillars[lowest].name
        /\ ret.value.replacements["Primary_Focus_Area"] = pillars[lowest].name
        /\ ret.value.replacements["Lowest_Pillar_Impact_Statement"]
             = pillars[lowest].impactStatement

\* Conversion and tracking tie for the lowest score below visibility, and
\* conversion is the pillar named.
C29_Witness ==
  /\ LowestFound
  /\ call.pillarScores.conversion = 5
  /\ call.pillarScores.tracking = 5
  /\ call.pillarScores.visibility = 10
  /\ call.pillarScores.reputation = 15
  /\ call.pillarScores.marketing = 20
  /\ ret.value.lowestPillar = "conversion"

\* ------------------------------------------------------------------------
\* The token scan leaves the other lines alone
\* ------------------------------------------------------------------------
\* Lines the scan tracks its state from, and the lines it has no use for:
\* show-text without a known token and operators it does not recognize.
TrackedLine(line) ==
  tfMatch(line) \/ cmykMatch(line) \/ grayMatch(line) \/ tmMatch(line) \/ tdMatch(line)
ScanRelevant(stream) == SelectSeq(stream, LAMBDA l : TrackedLine(l) \/ TokenLine(l))

\* C30: the token scan hands on every line that is not a show-text
\* operator with a known token unchanged and in its place; and show-text
\* without a known token (a stray `{{...}}` included) and unrecognized
\* lines record no position and leave the scan state alone: the positions
\* recorded are those the scan records with these lines taken out.  A stream
\* is looked at in the state its scan has just ended in.
C30_OtherLinesUntouched ==
  \A s \in Scanned :
    (pc = "blank" /\ s = next - 1 /\ GatePasses(s)) =>
      LET in == ScanInput(s)
          out == objects[s].contents
          page == template[s].page
          scan == blankAndRecordPositions(in, page, pageFontMaps[page])
      IN  /\ out = scan.output
          /\ Len(OnPage(page)) = Len(scan.positions)
          /\ Len(out) = Len(in)
          /\ \A i \in 1..Len(in) : ~TokenLine(in[i]) => out[i] = in[i]
          /\ Len(scan.positions) <= Len(TokenLines(in))
          /\ scan.positions # << >> =>
               scan.positions
                 = ScanLoop(ScanRelevant(in), InitScanState, page, pageFontMaps[page]).positions

\* A stream was scanned that holds a stray `{{Unknown}}` show-text, handed
\* on as it was, before a token line that was blanked and recorded.
C30_Witness ==
  \E s \in Scanned :
    LET in == ScanInput(s)
        out == objects[s].contents
    IN  /\ GatePasses(s)
        /\ \E i \in 1..Len(in) :
             /\ IsShow(in[i]) /\ ~TokenLine(in[i])
             /\ Includes(ShowText(in[i]), OpenBraces)
             /\ out[i] = in[i]
             /\ \E j \in (i + 1)..Len(in) : TokenLine(in[j]) /\ out[j] = BlankTj
        /\ OnPage(template[s].page) # << >>

\* The same with an operator the scan does not recognize.
C30_UnrecognizedWitness ==
  \E s \in Scanned :
    LET in == ScanInput(s)
        out == objects[s].contents
    IN  /\ GatePasses(s)
        /\ \E i \in 1..Len(in) :
             /\ ~IsShow(in[i]) /\ ~TrackedLine(in[i])
             /\ out[i] = in[i]
             /\ \E j \in (i + 1)..Len(in) : TokenLine(in[j]) /\ out[j] = BlankTj
        /\ OnPage(template[s].page) # << >>

====
